---------------------------- MODULE Spec2Model ----------------------------
(***************************************************************************)
(* Model of the detext reference-tracking editor.                          *)
(*                                                                         *)
(* The Editor component (the second half of                                *)
(* src/pages/api/generate-questions.ts) keeps a contenteditable document,  *)
(* a list of references (React state) and activity counters (refs).  The   *)
(* document is modelled as the DOM tree below the editor element: a        *)
(* sequence of nodes, where a reference span holds its own child nodes.    *)
(* Every handler is one action: the handler body, the re-render it causes  *)
(* and the effects that run after that render.                             *)
(*                                                                         *)
(* The earlier Editor of src/components/ui/editor.tsx is modelled by the   *)
(* Old... actions and the specification SpecOld.                           *)
(***************************************************************************)
EXTENDS Integers, Sequences, FiniteSets, TLC

(***************************************************************************)
(* Bounds of the model.                                                    *)
(***************************************************************************)
MaxNodes == 4      \* DOM nodes below the editor element
MaxTyped == 1      \* characters typed (or pasted by default) in the document
MaxMarkers == 2    \* position markers in the document
MaxRefs == 1       \* entries of the Reference Store
MaxClock == 2      \* values of Date.now() in a session
MaxCount == 1      \* value of either activity counter

(***************************************************************************)
(* Strings are sequences of characters.                                    *)
(***************************************************************************)
NBSP == "nbsp"
Blank == " "

PasteTexts == { <<>>, <<Blank>>, <<"a">>, <<"b">> }
CitationInputs == { <<>>, <<Blank>>, <<"c">> }

RECURSIVE TrimStart(_)
TrimStart(s) ==
    IF s = <<>> THEN <<>>
    ELSE IF Head(s) \in {Blank, NBSP} THEN TrimStart(Tail(s)) ELSE s

RECURSIVE TrimEnd(_)
TrimEnd(s) ==
    IF s = <<>> THEN <<>>
    ELSE IF s[Len(s)] \in {Blank, NBSP} THEN TrimEnd(SubSeq(s, 1, Len(s) - 1))
    ELSE s

\* String.prototype.trim
Trim(s) == TrimEnd(TrimStart(s))

\* a string used as a condition: '' is falsy
Truthy(s) == s # <<>>

(***************************************************************************)
(* DOM nodes.  k is the kind of node:                                      *)
(*   "text"    one character of a text node (c is the character)           *)
(*   "marker"  <span id="paste-position-marker">                          *)
(*   "normal"  <span data-normal="true">, the empty insertion point       *)
(*   "span"    a reference span; id is its data-ref-id (NoId: it has no    *)
(*             such attribute), kids are its child nodes                   *)
(***************************************************************************)
NoId == 0

TextNode(ch) == [k |-> "text", id |-> NoId, c |-> ch, kids |-> <<>>]
MarkerNode == [k |-> "marker", id |-> NoId, c |-> "", kids |-> <<>>]
NormalNode == [k |-> "normal", id |-> NoId, c |-> "", kids |-> <<>>]

\* the markers are distinct DOM nodes with the same id attribute: c tells
\* the marker that the latest paste made from the earlier ones
OpenMarker == [k |-> "marker", id |-> NoId, c |-> "open", kids |-> <<>>]
TextNodes(s) == [i \in 1..Len(s) |-> TextNode(s[i])]
SpanNode(refId, s) == [k |-> "span", id |-> refId, c |-> "", kids |-> TextNodes(s)]

Min(S) == CHOOSE x \in S : \A y \in S : x <= y

Front(s) == SubSeq(s, 1, Len(s) - 1)
Last(s) == s[Len(s)]

RECURSIVE NodeCount(_)
NodeCount(ns) ==
    IF ns = <<>> THEN 0
    ELSE 1 + NodeCount(Head(ns).kids) + NodeCount(Tail(ns))

\* element.innerText / textContent: the visible characters in document order
RECURSIVE InnerText(_)
InnerText(ns) ==
    IF ns = <<>> THEN <<>>
    ELSE LET n == Head(ns) IN
         (IF n.k = "text" THEN <<n.c>> ELSE InnerText(n.kids)) \o InnerText(Tail(ns))

RECURSIVE MarkerCount(_)
MarkerCount(ns) ==
    IF ns = <<>> THEN 0
    ELSE (IF Head(ns).k = "marker" THEN 1 ELSE 0)
         + MarkerCount(Head(ns).kids) + MarkerCount(Tail(ns))

\* number of spans carrying data-ref-id = refId
RECURSIVE SpanCount(_, _)
SpanCount(ns, refId) ==
    IF ns = <<>> THEN 0
    ELSE (IF Head(ns).k = "span" /\ Head(ns).id = refId THEN 1 ELSE 0)
         + SpanCount(Head(ns).kids, refId) + SpanCount(Tail(ns), refId)

\* number of characters that the user typed or that a default paste put in
\* (spaces, in this model)
RECURSIVE TypedCount(_)
TypedCount(ns) ==
    IF ns = <<>> THEN 0
    ELSE (IF Head(ns).k = "text" /\ Head(ns).c = Blank THEN 1 ELSE 0)
         + TypedCount(Head(ns).kids) + TypedCount(Tail(ns))

\* editor.querySelectorAll('span[data-ref-id]'): the ids on spans
RECURSIVE SpanIds(_)
SpanIds(ns) ==
    IF ns = <<>> THEN {}
    ELSE (IF Head(ns).k = "span" /\ Head(ns).id # NoId THEN {Head(ns).id} ELSE {})
         \cup SpanIds(Head(ns).kids) \cup SpanIds(Tail(ns))

(***************************************************************************)
(* A position is where a node can be inserted: the child indices that lead *)
(* to a container (the editor itself or a span), then an offset in it.     *)
(* A path names a node: the child indices that lead to it.                 *)
(***************************************************************************)
RECURSIVE Positions(_)
Positions(ns) ==
    { <<o>> : o \in 0..Len(ns) }
    \cup UNION { { <<i>> \o p : p \in Positions(ns[i].kids) } :
                 i \in { j \in 1..Len(ns) : ns[j].k = "span" } }

RECURSIVE Paths(_)
Paths(ns) ==
    { <<i>> : i \in 1..Len(ns) }
    \cup UNION { { <<i>> \o p : p \in Paths(ns[i].kids) } : i \in 1..Len(ns) }

RECURSIVE NodeAt(_, _)
NodeAt(ns, path) ==
    IF Len(path) = 1 THEN ns[path[1]] ELSE NodeAt(ns[path[1]].kids, Tail(path))

\* Range.insertNode / Node.insertBefore: new nodes go in at a position
RECURSIVE InsertAt(_, _, _)
InsertAt(ns, pos, new) ==
    IF Len(pos) = 1
    THEN SubSeq(ns, 1, pos[1]) \o new \o SubSeq(ns, pos[1] + 1, Len(ns))
    ELSE [ns EXCEPT ![pos[1]].kids = InsertAt(@, Tail(pos), new)]

\* the siblings from path to its sibling number upto are taken out
RECURSIVE RemoveRange(_, _, _)
RemoveRange(ns, path, upto) ==
    IF Len(path) = 1
    THEN SubSeq(ns, 1, path[1] - 1) \o SubSeq(ns, upto + 1, Len(ns))
    ELSE [ns EXCEPT ![path[1]].kids = RemoveRange(@, Tail(path), upto)]

\* parent.removeChild(node) / node.remove()
RemoveAt(ns, path) == RemoveRange(ns, path, Last(path))

\* the position right before the node at path
Before(path) == Front(path) \o <<Last(path) - 1>>

\* document.getElementById('paste-position-marker'): the path of the first
\* marker in document order, <<>> when there is none
RECURSIVE FirstMarker(_)
FirstMarker(ns) ==
    LET hit == { i \in 1..Len(ns) :
                   ns[i].k = "marker" \/ MarkerCount(ns[i].kids) > 0 }
    IN IF hit = {} THEN <<>>
       ELSE LET i == Min(hit)
            IN IF ns[i].k = "marker" THEN <<i>> ELSE <<i>> \o FirstMarker(ns[i].kids)

\* editor.querySelector('span[data-ref-id="id"]'): the path of the first span
\* with that id in document order, <<>> when there is none
RECURSIVE FirstSpan(_, _)
FirstSpan(ns, refId) ==
    LET hit == { i \in 1..Len(ns) :
                   (ns[i].k = "span" /\ ns[i].id = refId)
                   \/ SpanCount(ns[i].kids, refId) > 0 }
    IN IF hit = {} THEN <<>>
       ELSE LET i == Min(hit)
            IN IF ns[i].k = "span" /\ ns[i].id = refId THEN <<i>>
               ELSE <<i>> \o FirstSpan(ns[i].kids, refId)

\* the document when another marker is made: the markers that are in it are
\* the earlier ones
RECURSIVE Earlier(_)
Earlier(ns) ==
    [i \in 1..Len(ns) |->
        IF ns[i].k = "marker" THEN MarkerNode
        ELSE [ns[i] EXCEPT !.kids = Earlier(@)]]

\* a difference that keeps its sign
Signed(n) == n

\* Math.abs
Abs(n) == IF n < 0 THEN -n ELSE n

(***************************************************************************)
(* State of the Editor.                                                    *)
(***************************************************************************)
VARIABLES
    doc,              \* child nodes of the editor element (editorRef.current)
    references,       \* useState<Reference[]>: sequence of [id, text, citation]
    selectedText,     \* useState(''): the captured paste text
    isDialogOpen,     \* useState(false): the paste dialog
    citation,         \* useState(''): the citation input of the dialog
    charAmount,       \* useRef(0): keystroke counter
    backspaceAmount,  \* useRef(0): deletion counter
    charSeries,       \* useRef([]): sampled keystroke counter
    backspaceSeries,  \* useRef([]): sampled deletion counter
    oldTextLength,    \* useRef(0): the text length seen by the last input event
    mounted,          \* the component is mounted: listeners and timer are live
    lastOp,           \* the event handled last: [op, marker]
    questions,              \* useState<Question[]>([]): sequence of [id, text]
    isQuestionsDialogOpen,  \* useState(false): the questions dialog
    isGeneratingQuestions,  \* useState(false): the loading flag
    issued,           \* number of fetch('/api/generate-questions') calls made
    requests,         \* the calls of handleGenerateQuestions awaiting a response
    alerts,           \* number of alert() calls made
    handled,          \* history: the response handled last, [serial, response]
    keystrokes,       \* HomePage, useState<number[]>([]): sampled keystrokes
    backspaces,       \* HomePage, useState<number[]>([]): sampled backspaces
    keystrokesRef,    \* HomePage, useRef(0): keystroke counter
    backspaceRef,     \* HomePage, useRef(0): backspace counter
    homeMounted,      \* HomePage is mounted: its listener and timer are live
    apiCall,          \* the request and environment of the last endpoint call
    apiResponse,      \* the response of the endpoint to it, NoReply before it
    events,           \* event-log page, useState<EventLogEntry[]>([])
    homeText,         \* event-log page, useState(""): the text of the textarea
    download,         \* the file downloaded last: [n, kind, content]
    quietTicks        \* history: the sampler ticks since the Editor was mounted
                      \* or cleared, -1 once an input event has come since

\* the state of the Editor's document, store and activity accounting
editorVars == << doc, references, selectedText, isDialogOpen, citation,
                 charAmount, backspaceAmount, charSeries, backspaceSeries,
                 oldTextLength, mounted, lastOp >>

\* the state of the Editor's question generation
questionVars == << questions, isQuestionsDialogOpen, isGeneratingQuestions,
                   issued, requests, alerts, handled >>

\* the state of HomePage
homeVars == << keystrokes, backspaces, keystrokesRef, backspaceRef,
               homeMounted >>

\* the state of the event-log page (HomePage of src/unnamed/part_000) and
\* the file that an export of any page has produced
logVars == << events, homeText, download >>

\* a call of the generation endpoint
apiVars == << apiCall, apiResponse >>

vars == << editorVars, questionVars, homeVars, apiVars, logVars, quietTicks >>

\* lastOp names the handler that ran last when a property needs to know it:
\* "paste" (taken over), "pasteIgnored", "commit", "commitRefused", "cancel",
\* "dismiss" (marker: the handler found a position marker), "clear",
\* "unmount";
\* every other handler leaves "edit"
Op(name) == [op |-> name, marker |-> FALSE, cursor |-> <<>>]

\* what the client gets for a request: status 0 when fetch or the parsing
\* of the body fails, else the HTTP status and the questions member of the
\* body (hasList: it is an array)
Response(status, hasList, list) ==
    [status |-> status, hasList |-> hasList, list |-> list]

\* no response has been handled
NoResponse == [serial |-> 0, response |-> Response(0, FALSE, <<>>)]

\* the upstream service as one call of the endpoint finds it:
\*   kind     "transport" (fetch rejects) or "http" (a response with status)
\*   payload  what response.json() gives: "badJson" (it rejects), "null",
\*            "noCandidates", "emptyCandidates", "noContent", "noParts",
\*            "emptyParts", "noText", or "text": a generated text
\*   lines    the lines of the generated text, text being these lines
\*            joined by line breaks
Upstream(kind, status, payload, lines, text) ==
    [kind |-> kind, status |-> status, payload |-> payload, lines |-> lines,
     text |-> text]

\* a call of the endpoint: req.method, req.body.text (kind: "absent",
\* "number" or "string"), whether GEMINI_API_KEY is set, and the upstream
Call(method, text, apiKey, upstream) ==
    [method |-> method, text |-> text, apiKey |-> apiKey,
     upstream |-> upstream]

BodyText(kind, value) == [kind |-> kind, value |-> value]

\* res.status(status).json(body): body is { questions } (error = "") or
\* { error, details }
Reply(status, error, details, list) ==
    [status |-> status, error |-> error, details |-> details, list |-> list]

\* a downloaded file: the n-th download of the session, its kind
\* ("metrics", "activity-log", "event-log") and its content, a string
Download(n, kind, content) == [n |-> n, kind |-> kind, content |-> content]

\* nothing has been downloaded
NoDownload == Download(0, "", <<>>)

\* no call of the endpoint has been made
NoCall ==
    Call("", BodyText("absent", <<>>), FALSE,
         Upstream("transport", 0, "null", <<>>, <<>>))

NoReply == Reply(0, "", FALSE, <<>>)

Init ==
    /\ doc = <<>>
    /\ references = <<>>
    /\ selectedText = <<>>
    /\ isDialogOpen = FALSE
    /\ citation = <<>>
    /\ charAmount = 0
    /\ backspaceAmount = 0
    /\ charSeries = <<>>
    /\ backspaceSeries = <<>>
    /\ oldTextLength = 0
    /\ mounted = TRUE
    /\ lastOp = Op("edit")
    /\ questions = <<>>
    /\ isQuestionsDialogOpen = FALSE
    /\ isGeneratingQuestions = FALSE
    /\ issued = 0
    /\ requests = {}
    /\ alerts = 0
    /\ handled = NoResponse
    /\ keystrokes = <<>>
    /\ backspaces = <<>>
    /\ keystrokesRef = 0
    /\ backspaceRef = 0
    /\ homeMounted = FALSE
    /\ apiCall = NoCall
    /\ apiResponse = NoReply
    /\ events = <<>>
    /\ homeText = <<>>
    /\ download = NoDownload
    /\ quietTicks = 0

(***************************************************************************)
(* Pure parts of the handlers.                                             *)
(***************************************************************************)

\* a paste check that forgets to trim
PasteInterceptedNoTrim(text) == Truthy(text)

\* handleEditorPaste: the paste is taken over when the text is not blank
PasteIntercepted(text) == Truthy(Trim(text))

\* the dialog-close effect: its body for the document d after a render with
\* dialog state open, captured text sel and store refs
DialogCloseEffect(d, open, sel, refs) ==
    IF open THEN d
    ELSE LET marker == FirstMarker(d)
             wasAddedAsReference == \E i \in 1..Len(refs) : refs[i].text = sel
         IN IF marker = <<>> THEN d
            ELSE IF wasAddedAsReference THEN d
            ELSE RemoveAt(d, marker)

\* Date.now() does not go back: it is at least every id handed out before
\* that is still in the store or on a span
Clocks ==
    { t \in 1..MaxClock :
        /\ \A i \in 1..Len(references) : references[i].id <= t
        /\ \A id \in SpanIds(doc) : id <= t }

\* an early return that forgets to trim
AddReferenceRefusedNoTrim(cit, sel) == ~Truthy(cit) \/ ~Truthy(sel)

\* handleAddReference: the early return
AddReferenceRefused(cit, sel) == ~Truthy(Trim(cit)) \/ ~Truthy(Trim(sel))

\* handleAddReference: the new entry of the store
NewReference(clock, sel, cit) == [id |-> clock, text |-> sel, citation |-> cit]

\* a block whose text is not wrapped in a span
ReferenceBlockPlain(ref) == TextNodes(ref.text) \o << TextNode(NBSP), NormalNode >>

\* handleAddReference: span, non-breaking space and normal-text container
ReferenceBlock(ref) == << SpanNode(ref.id, ref.text), TextNode(NBSP), NormalNode >>

\* window.getSelection() when Add Reference is pressed: no range at all, a
\* range at a position of the editor, or a range outside the editor
NoRange == <<-1>>
OutsideRange == <<-2>>
Selections(d) == Positions(d) \cup {NoRange, OutsideRange}

\* handleAddReference: the document after the insertion; sel is the current
\* selection, used only when there is no marker
InsertReference(d, ref, sel) ==
    LET marker == FirstMarker(d)
    IN IF marker # <<>>
       THEN RemoveAt(InsertAt(d, Before(marker), ReferenceBlock(ref)),
                     Front(marker) \o <<Last(marker) + 3>>)
       ELSE IF sel = OutsideRange THEN d
       ELSE IF sel = NoRange THEN d \o ReferenceBlock(ref)
       ELSE InsertAt(d, sel, ReferenceBlock(ref))

\* handleAddReference: range.setStart(textNode, 0), the path of the node
\* that holds the cursor after the insertion, <<>> when it is not in the
\* editor
CursorInTextNode(d, sel) ==
    LET marker == FirstMarker(d)
    IN IF marker # <<>> THEN Front(marker) \o <<Last(marker) + 2>>
       ELSE IF sel = OutsideRange THEN <<>>
       ELSE IF sel = NoRange THEN << Len(d) + 3 >>
       ELSE Front(sel) \o <<Last(sel) + 3>>

\* handleEditorInput: the store keeps the references whose id is on a span
Reconcile(refs, d) == SelectSeq(refs, LAMBDA r : r.id \in SpanIds(d))

\* handleEditorInput: the counters after an input event of type inputType
\* that found the text length changed by delta
\* a count of every input that is not a deletion
CountInsertions(count, inputType, delta) ==
    IF inputType \in {"deleteContentBackward", "deleteContentForward"}
    THEN count ELSE count + delta

CountKeystrokes(count, inputType, delta) ==
    IF inputType = "insertText" THEN count + delta ELSE count

\* inputType.startsWith("delete"), over the input types of the model
StartsWithDelete(inputType) ==
    inputType \in {"deleteContentBackward", "deleteContentForward"}

CountDeletions(count, inputType, delta) ==
    IF inputType = "insertText" THEN count
    ELSE IF StartsWithDelete(inputType) THEN count + delta
    ELSE count

\* handleRemoveReference: the store without the reference
WithoutReference(refs, refId) == SelectSeq(refs, LAMBDA r : r.id # refId)

\* handleRemoveReference: the document without the span found for the id
WithoutSpan(d, refId) ==
    LET spanToRemove == FirstSpan(d, refId)
    IN IF spanToRemove = <<>> THEN d ELSE RemoveAt(d, spanToRemove)


(***************************************************************************)
(* Handlers of the Editor.                                                 *)
(***************************************************************************)

\* a paste event on the editor with clipboard text `text`, the selection
\* being at pos; an ignored paste does not read the selection
EditorPaste(text, pos) ==
    /\ mounted
    /\ IF PasteIntercepted(text)
       THEN /\ selectedText' = text
            /\ doc' = DialogCloseEffect(InsertAt(Earlier(doc), pos, <<OpenMarker>>),
                                        TRUE, text, references)
            /\ isDialogOpen' = TRUE
            /\ lastOp' = Op("paste")
       ELSE /\ pos = <<0>>
            /\ lastOp' = Op("pasteIgnored")
            /\ UNCHANGED << doc, selectedText, isDialogOpen >>
    /\ UNCHANGED << references, citation, charAmount, backspaceAmount,
                    charSeries, backspaceSeries, oldTextLength, mounted >>
    /\ UNCHANGED << questionVars, homeVars, apiVars, logVars, quietTicks >>

\* an input event: the browser has changed the document to d, then
\* handleEditorInput runs, the store is set and the close effect follows
EditorInput(d, inputType) ==
    LET length == Len(InnerText(d))
        delta == Abs(length - oldTextLength)
        refs == Reconcile(references, d)
    IN /\ mounted
       /\ oldTextLength' = length
       /\ charAmount' = CountKeystrokes(charAmount, inputType, delta)
       /\ backspaceAmount' = CountDeletions(backspaceAmount, inputType, delta)
       /\ references' = refs
       /\ doc' = DialogCloseEffect(d, isDialogOpen, selectedText, refs)
       /\ lastOp' = Op("edit")
       /\ quietTicks' = -1
       /\ UNCHANGED << selectedText, isDialogOpen, citation, charSeries,
                       backspaceSeries, mounted >>
       /\ UNCHANGED << questionVars, homeVars, apiVars, logVars >>

\* the user types one character, a space, at pos
TypeChar(pos) ==
    EditorInput(InsertAt(doc, pos, <<TextNode(Blank)>>), "insertText")

\* the default action of a paste that the handler did not take over: the
\* browser inserts the white space of the clipboard at pos
DefaultPaste(pos) ==
    /\ lastOp.op = "pasteIgnored"
    /\ EditorInput(InsertAt(doc, pos, <<TextNode(Blank)>>), "insertFromPaste")

\* what the user can select and delete: the siblings path .. upto, when
\* they show at least one character or span
Siblings(d, path) == IF Len(path) = 1 THEN d ELSE NodeAt(d, Front(path)).kids

Deletable(d) ==
    { r \in { <<path, upto>> : path \in Paths(d), upto \in 1..NodeCount(d) } :
        /\ r[2] >= Last(r[1])
        /\ r[2] <= Len(Siblings(d, r[1]))
        /\ \E i \in Last(r[1])..r[2] :
              Siblings(d, r[1])[i].k \in {"text", "span"} }

\* the user deletes the siblings path .. upto
DeleteRange(path, upto) ==
    EditorInput(RemoveRange(doc, path, upto), "deleteContentBackward")

\* onChange of the citation input
SetCitation(value) ==
    /\ mounted /\ isDialogOpen
    /\ value # citation
    /\ citation' = value
    /\ lastOp' = Op("edit")
    /\ UNCHANGED << doc, references, selectedText, isDialogOpen, charAmount,
                    backspaceAmount, charSeries, backspaceSeries,
                    oldTextLength, mounted >>
    /\ UNCHANGED << questionVars, homeVars, apiVars, logVars, quietTicks >>

\* an Add Reference button that gives up when the marker is gone
AddReferenceNeedsMarker(clock, sel) ==
    /\ mounted /\ isDialogOpen
    /\ IF AddReferenceRefused(citation, selectedText) \/ FirstMarker(doc) = <<>>
       THEN /\ clock = Min(Clocks) /\ sel = NoRange
            /\ lastOp' = Op("commitRefused")
            /\ UNCHANGED << doc, references, isDialogOpen, citation >>
       ELSE LET newReference == NewReference(clock, selectedText, citation)
                refs == Append(references, newReference)
                d == InsertReference(doc, newReference, sel)
            IN /\ references' = refs
               /\ doc' = DialogCloseEffect(d, FALSE, selectedText, refs)
               /\ isDialogOpen' = FALSE
               /\ citation' = <<>>
               /\ lastOp' = [Op("commit") EXCEPT
                                 !.marker = TRUE,
                                 !.cursor = CursorInTextNode(doc, sel)]
    /\ UNCHANGED << selectedText, charAmount, backspaceAmount, charSeries,
                    backspaceSeries, oldTextLength, mounted >>
    /\ UNCHANGED << questionVars, homeVars, apiVars, logVars, quietTicks >>

\* the Add Reference button, pressed when Date.now() is clock and the
\* selection is sel; a refused commit reads neither of them
AddReference(clock, sel) ==
    /\ mounted /\ isDialogOpen
    /\ IF AddReferenceRefused(citation, selectedText)
       THEN /\ clock = Min(Clocks) /\ sel = NoRange
            /\ lastOp' = Op("commitRefused")
            /\ UNCHANGED << doc, references, isDialogOpen, citation >>
       ELSE LET newReference == NewReference(clock, selectedText, citation)
                refs == Append(references, newReference)
                d == InsertReference(doc, newReference, sel)
            IN /\ FirstMarker(doc) # <<>> => sel = NoRange
               /\ references' = refs
               /\ doc' = DialogCloseEffect(d, FALSE, selectedText, refs)
               /\ isDialogOpen' = FALSE
               /\ citation' = <<>>
               /\ lastOp' = [Op("commit") EXCEPT 
                                 !.marker = FirstMarker(doc) # <<>>,
                                 !.cursor = CursorInTextNode(doc, sel)]
    /\ UNCHANGED << selectedText, charAmount, backspaceAmount, charSeries,
                    backspaceSeries, oldTextLength, mounted >>
    /\ UNCHANGED << questionVars, homeVars, apiVars, logVars, quietTicks >>

\* the Cancel button
CancelDialog ==
    /\ mounted /\ isDialogOpen
    /\ isDialogOpen' = FALSE
    /\ citation' = <<>>
    /\ doc' = DialogCloseEffect(doc, FALSE, selectedText, references)
    /\ lastOp' = [Op("cancel") EXCEPT !.marker = FirstMarker(doc) # <<>>]
    /\ UNCHANGED << references, selectedText, charAmount, backspaceAmount,
                    charSeries, backspaceSeries, oldTextLength, mounted >>
    /\ UNCHANGED << questionVars, homeVars, apiVars, logVars, quietTicks >>

\* a dismissal after which the close effect does not run
DismissDialogKeepsMarker ==
    /\ mounted /\ isDialogOpen
    /\ isDialogOpen' = FALSE
    /\ lastOp' = [Op("dismiss") EXCEPT !.marker = FirstMarker(doc) # <<>>]
    /\ UNCHANGED << doc, references, selectedText, citation, charAmount,
                    backspaceAmount, charSeries, backspaceSeries,
                    oldTextLength, mounted >>
    /\ UNCHANGED << questionVars, homeVars, apiVars, logVars, quietTicks >>

\* the dialog closes itself: onOpenChange(false)
DismissDialog ==
    /\ mounted /\ isDialogOpen
    /\ isDialogOpen' = FALSE
    /\ doc' = DialogCloseEffect(doc, FALSE, selectedText, references)
    /\ lastOp' = [Op("dismiss") EXCEPT !.marker = FirstMarker(doc) # <<>>]
    /\ UNCHANGED << references, selectedText, citation, charAmount,
                    backspaceAmount, charSeries, backspaceSeries,
                    oldTextLength, mounted >>
    /\ UNCHANGED << questionVars, homeVars, apiVars, logVars, quietTicks >>

\* the remove button of the sidebar entry i
RemoveReference(i) ==
    LET id == references[i].id
        refs == WithoutReference(references, id)
    IN /\ mounted
       /\ references' = refs
       /\ doc' = DialogCloseEffect(WithoutSpan(doc, id), isDialogOpen,
                                   selectedText, refs)
       /\ lastOp' = Op("remove")
       /\ UNCHANGED << selectedText, isDialogOpen, citation, charAmount,
                       backspaceAmount, charSeries, backspaceSeries,
                       oldTextLength, mounted >>
       /\ UNCHANGED << questionVars, homeVars, apiVars, logVars, quietTicks >>

\* a Clear document button that forgets the activity series
ClearDocumentKeepsSeries ==
    /\ mounted
    /\ charAmount' = 0
    /\ backspaceAmount' = 0
    /\ doc' = DialogCloseEffect(<<>>, isDialogOpen, selectedText, <<>>)
    /\ references' = <<>>
    /\ lastOp' = Op("clear")
    /\ quietTicks' = 0
    /\ UNCHANGED << selectedText, isDialogOpen, citation, oldTextLength,
                    mounted, charSeries, backspaceSeries >>
    /\ UNCHANGED << questionVars, homeVars, apiVars, logVars >>

\* the Clear document button
ClearDocument ==
    /\ mounted
    /\ charAmount' = 0
    /\ backspaceAmount' = 0
    /\ charSeries' = <<>>
    /\ backspaceSeries' = <<>>
    /\ doc' = DialogCloseEffect(<<>>, isDialogOpen, selectedText, <<>>)
    /\ references' = <<>>
    /\ lastOp' = Op("clear")
    /\ quietTicks' = 0
    /\ UNCHANGED << selectedText, isDialogOpen, citation, oldTextLength,
                    mounted >>
    /\ UNCHANGED << questionVars, homeVars, apiVars, logVars >>

\* the component unmounts: the cleanups run and React takes the editor
\* element, with everything below it, out of the document
Unmount ==
    /\ mounted
    /\ mounted' = FALSE
    /\ doc' = <<>>
    /\ lastOp' = Op("unmount")
    /\ UNCHANGED << references, selectedText, isDialogOpen, citation,
                    charAmount, backspaceAmount, charSeries, backspaceSeries,
                    oldTextLength >>
    /\ UNCHANGED << questionVars, homeVars, apiVars, logVars, quietTicks >>

\* the states kept by the bounds of the model
Bounded ==
    /\ NodeCount(doc) <= MaxNodes
    /\ MarkerCount(doc) <= MaxMarkers
    /\ TypedCount(doc) <= MaxTyped
    /\ Len(references) <= MaxRefs
    /\ charAmount <= MaxCount
    /\ backspaceAmount <= MaxCount

\* the document has room for more nodes, markers and typed characters
Room(nodes, markers, typed) ==
    /\ NodeCount(doc) + nodes <= MaxNodes
    /\ MarkerCount(doc) + markers <= MaxMarkers
    /\ TypedCount(doc) + typed <= MaxTyped

Next ==
    \/ \E text \in PasteTexts, pos \in Positions(doc) :
          /\ PasteIntercepted(text) => Room(1, 1, 0)
          /\ EditorPaste(text, pos) /\ Bounded'
    \/ \E pos \in Positions(doc) :
          Room(1, 0, 1) /\ TypeChar(pos) /\ Bounded'
    \/ \E pos \in Positions(doc) :
          Room(1, 0, 1) /\ DefaultPaste(pos) /\ Bounded'
    \/ \E r \in Deletable(doc) : DeleteRange(r[1], r[2]) /\ Bounded'
    \/ \E value \in CitationInputs : SetCitation(value)
    \/ \E clock \in Clocks, sel \in Selections(doc) :
          /\ AddReferenceRefused(citation, selectedText)
                \/ Len(references) < MaxRefs
          /\ AddReference(clock, sel) /\ Bounded'
    \/ CancelDialog
    \/ DismissDialog
    \/ \E i \in 1..Len(references) : RemoveReference(i)
    \/ ClearDocument
    \/ Unmount

Spec == Init /\ [][Next]_vars

(***************************************************************************)
(* The earlier Editor, src/components/ui/editor.tsx.  It has the same      *)
(* state without the activity counters, no input listener, and spans       *)
(* without data-ref-id.                                                    *)
(***************************************************************************)

\* the dialog-close effect of the earlier Editor: the captured text and a
\* space take the place of the marker
OldDialogCloseEffect(d, open, sel) ==
    IF open THEN d
    ELSE LET marker == FirstMarker(d)
             plain == TextNodes(sel) \o <<TextNode(Blank)>>
         IN IF marker = <<>> THEN d
            ELSE RemoveAt(InsertAt(d, Before(marker), plain),
                          Front(marker) \o <<Last(marker) + Len(plain)>>)

\* handleAddReference of the earlier Editor: span and space
OldReferenceBlock(ref) == << SpanNode(NoId, ref.text), TextNode(Blank) >>

OldInsertReference(d, ref, sel) ==
    LET marker == FirstMarker(d)
    IN IF marker # <<>>
       THEN RemoveAt(InsertAt(d, Before(marker), OldReferenceBlock(ref)),
                     Front(marker) \o <<Last(marker) + 2>>)
       ELSE IF sel = OutsideRange THEN d
       ELSE IF sel = NoRange THEN d \o OldReferenceBlock(ref)
       ELSE InsertAt(d, sel, OldReferenceBlock(ref))

OldEditorPaste(text, pos) ==
    /\ mounted
    /\ IF Truthy(Trim(text))
       THEN /\ selectedText' = text
            /\ doc' = OldDialogCloseEffect(InsertAt(doc, pos, <<MarkerNode>>),
                                           TRUE, text)
            /\ isDialogOpen' = TRUE
            /\ lastOp' = Op("paste")
       ELSE /\ pos = <<0>>
            /\ lastOp' = Op("pasteIgnored")
            /\ UNCHANGED << doc, selectedText, isDialogOpen >>
    /\ UNCHANGED << references, citation, charAmount, backspaceAmount,
                    charSeries, backspaceSeries, oldTextLength, mounted >>
    /\ UNCHANGED << questionVars, homeVars, apiVars, logVars, quietTicks >>

\* the user edits the document to d: the earlier Editor does not listen
OldEdit(d) ==
    /\ mounted
    /\ doc' = d
    /\ lastOp' = Op("edit")
    /\ UNCHANGED << references, selectedText, isDialogOpen, citation,
                    charAmount, backspaceAmount, charSeries, backspaceSeries,
                    oldTextLength, mounted >>
    /\ UNCHANGED << questionVars, homeVars, apiVars, logVars, quietTicks >>

OldTypeChar(pos) == OldEdit(InsertAt(doc, pos, <<TextNode(Blank)>>))

OldDeleteRange(path, upto) == OldEdit(RemoveRange(doc, path, upto))

OldSetCitation(value) ==
    /\ mounted /\ isDialogOpen
    /\ value # citation
    /\ citation' = value
    /\ lastOp' = Op("edit")
    /\ UNCHANGED << doc, references, selectedText, isDialogOpen, charAmount,
                    backspaceAmount, charSeries, backspaceSeries,
                    oldTextLength, mounted >>
    /\ UNCHANGED << questionVars, homeVars, apiVars, logVars, quietTicks >>

OldAddReference(clock, sel) ==
    /\ mounted /\ isDialogOpen
    /\ IF ~Truthy(Trim(citation)) \/ ~Truthy(Trim(selectedText))
       THEN /\ clock = Min(Clocks) /\ sel = NoRange
            /\ lastOp' = Op("commitRefused")
            /\ UNCHANGED << doc, references, isDialogOpen, citation >>
       ELSE LET newReference == NewReference(clock, selectedText, citation)
                d == OldInsertReference(doc, newReference, sel)
            IN /\ FirstMarker(doc) # <<>> => sel = NoRange
               /\ references' = Append(references, newReference)
               /\ doc' = OldDialogCloseEffect(d, FALSE, selectedText)
               /\ isDialogOpen' = FALSE
               /\ citation' = <<>>
               /\ lastOp' = [Op("commit") EXCEPT !.marker = FirstMarker(doc) # <<>>]
    /\ UNCHANGED << selectedText, charAmount, backspaceAmount, charSeries,
                    backspaceSeries, oldTextLength, mounted >>
    /\ UNCHANGED << questionVars, homeVars, apiVars, logVars, quietTicks >>

\* the Cancel button and onOpenChange(false): both are setIsDialogOpen(false)
OldCancelDialog ==
    /\ mounted /\ isDialogOpen
    /\ isDialogOpen' = FALSE
    /\ doc' = OldDialogCloseEffect(doc, FALSE, selectedText)
    /\ lastOp' = [Op("cancel") EXCEPT !.marker = FirstMarker(doc) # <<>>]
    /\ UNCHANGED << references, selectedText, citation, charAmount,
                    backspaceAmount, charSeries, backspaceSeries,
                    oldTextLength, mounted >>
    /\ UNCHANGED << questionVars, homeVars, apiVars, logVars, quietTicks >>

\* the remove button of the sidebar entry i: only the store changes, and
\* the close effect does not run again
OldRemoveReference(i) ==
    /\ mounted
    /\ references' = WithoutReference(references, references[i].id)
    /\ lastOp' = Op("edit")
    /\ UNCHANGED << doc, selectedText, isDialogOpen, citation, charAmount,
                    backspaceAmount, charSeries, backspaceSeries,
                    oldTextLength, mounted >>
    /\ UNCHANGED << questionVars, homeVars, apiVars, logVars, quietTicks >>

\* the Clear document button: only the document changes
OldClearDocument ==
    /\ mounted
    /\ doc' = <<>>
    /\ lastOp' = Op("edit")
    /\ UNCHANGED << references, selectedText, isDialogOpen, citation,
                    charAmount, backspaceAmount, charSeries, backspaceSeries,
                    oldTextLength, mounted >>
    /\ UNCHANGED << questionVars, homeVars, apiVars, logVars, quietTicks >>

OldUnmount ==
    /\ mounted
    /\ mounted' = FALSE
    /\ doc' = <<>>
    /\ lastOp' = Op("unmount")
    /\ UNCHANGED << references, selectedText, isDialogOpen, citation,
                    charAmount, backspaceAmount, charSeries, backspaceSeries,
                    oldTextLength >>
    /\ UNCHANGED << questionVars, homeVars, apiVars, logVars, quietTicks >>

NextOld ==
    \/ \E text \in PasteTexts, pos \in Positions(doc) :
          /\ Truthy(Trim(text)) => Room(1, 1, 0)
          /\ OldEditorPaste(text, pos) /\ Bounded'
    \/ \E pos \in Positions(doc) :
          Room(1, 0, 1) /\ OldTypeChar(pos) /\ Bounded'
    \/ \E r \in Deletable(doc) : OldDeleteRange(r[1], r[2])
    \/ \E value \in CitationInputs : OldSetCitation(value)
    \/ \E clock \in Clocks, sel \in Selections(doc) :
          /\ ~Truthy(Trim(citation)) \/ Len(references) < MaxRefs
          /\ OldAddReference(clock, sel) /\ Bounded'
    \/ OldCancelDialog /\ Bounded'
    \/ \E i \in 1..Len(references) : OldRemoveReference(i)
    \/ OldClearDocument
    \/ OldUnmount

SpecOld == Init /\ [][NextOld]_vars

(***************************************************************************)
(* A session of the Editor in which the user only pastes, cites, commits,  *)
(* deletes whole reference spans and removes references in the sidebar,    *)
(* two commits never falling in the same millisecond: the same handlers,   *)
(* followed into larger documents.                                         *)
(***************************************************************************)
NestNodes == MaxNodes + 4
NestRefs == MaxRefs + 1

BoundedNest ==
    /\ NodeCount(doc) <= NestNodes
    /\ MarkerCount(doc) <= 1
    /\ Len(references) <= NestRefs
    /\ backspaceAmount <= MaxCount

NextNest ==
    \/ \E pos \in Positions(doc) : EditorPaste(<<"a">>, pos) /\ BoundedNest'
    \/ \E path \in Paths(doc) :
          /\ NodeAt(doc, path).k = "span"
          /\ DeleteRange(path, Last(path)) /\ BoundedNest'
    \/ SetCitation(<<"c">>)
    \/ \E clock \in Clocks :
          /\ \A i \in 1..Len(references) : references[i].id # clock
          /\ AddReference(clock, NoRange) /\ BoundedNest'
    \/ \E i \in 1..Len(references) : RemoveReference(i)

SpecNest == Init /\ [][NextNest]_vars

(***************************************************************************)
(* The scenario of the marker protocol: pastes, typing and deletions       *)
(* around the markers, and the resolutions of the dialog, in a document    *)
(* that has room for two markers and the block of a commit.                *)
(***************************************************************************)
ProtocolNodes == MaxNodes + 2

BoundedProtocol ==
    /\ NodeCount(doc) <= ProtocolNodes
    /\ MarkerCount(doc) <= MaxMarkers
    /\ TypedCount(doc) <= MaxTyped
    /\ Len(references) <= MaxRefs
    /\ charAmount <= MaxCount
    /\ backspaceAmount <= MaxCount

NextProtocol ==
    \/ \E pos \in Positions(doc) : EditorPaste(<<"a">>, pos) /\ BoundedProtocol'
    \/ \E pos \in Positions(doc) : TypeChar(pos) /\ BoundedProtocol'
    \/ \E r \in Deletable(doc) : DeleteRange(r[1], r[2]) /\ BoundedProtocol'
    \/ SetCitation(<<"c">>)
    \/ \E clock \in Clocks :
          AddReference(clock, NoRange) /\ BoundedProtocol'
    \/ CancelDialog

SpecProtocol == Init /\ [][NextProtocol]_vars

(***************************************************************************)
(* The scenario of the activity counters: typing, pastes that the browser  *)
(* inserts, deletions, commits, sidebar removals and clearing, with room   *)
(* in the counters for the length of a committed block.                    *)
(***************************************************************************)
CountingNodes == MaxNodes + 1
CountingTyped == MaxTyped + 1
CountingCount == MaxCount + 2

BoundedCounting ==
    /\ NodeCount(doc) <= CountingNodes
    /\ MarkerCount(doc) <= 1
    /\ TypedCount(doc) <= CountingTyped
    /\ Len(references) <= MaxRefs
    /\ charAmount <= CountingCount
    /\ backspaceAmount <= CountingCount

NextCounting ==
    \/ \E text \in { <<Blank>>, <<"a">> } :
          /\ EditorPaste(text, IF PasteIntercepted(text) THEN <<Len(doc)>> ELSE <<0>>)
          /\ BoundedCounting'
    \/ TypeChar(<<Len(doc)>>) /\ BoundedCounting'
    \/ DefaultPaste(<<Len(doc)>>) /\ BoundedCounting'
    \/ \E i \in 1..Len(doc) :
          /\ doc[i].k \in {"text", "span"}
          /\ DeleteRange(<<i>>, i) /\ BoundedCounting'
    \/ SetCitation(<<"c">>)
    \/ AddReference(Min(Clocks), NoRange) /\ BoundedCounting'
    \/ \E i \in 1..Len(references) : RemoveReference(i)
    \/ ClearDocument

SpecCounting == Init /\ [][NextCounting]_vars

(***************************************************************************)
(* The scenario of the ids: two commits, at any readings of Date.now()     *)
(* that do not go back.                                                    *)
(***************************************************************************)
IdNodes == 2 * MaxNodes + 1
IdRefs == MaxRefs + 1

BoundedIds ==
    /\ NodeCount(doc) <= IdNodes
    /\ MarkerCount(doc) <= 1
    /\ Len(references) <= IdRefs

NextIds ==
    \/ \E pos \in Positions(doc) : EditorPaste(<<"a">>, pos) /\ BoundedIds'
    \/ SetCitation(<<"c">>)
    \/ \E clock \in Clocks : AddReference(clock, NoRange) /\ BoundedIds'
    \/ \E i \in 1..Len(references) : RemoveReference(i)

SpecIds == Init /\ [][NextIds]_vars

(***************************************************************************)
(* The activity sampler of the Editor: setInterval(..., 100) of the mount  *)
(* effect.  JavaScript runs one callback at a time, so a tick is one       *)
(* action, like every handler.                                             *)
(***************************************************************************)
MaxTicks == 3      \* samples in either activity series

\* a sampler that appends a value only when it differs from the last one
SampleIfChanged(series, count) ==
    IF series # <<>> /\ Last(series) = count THEN series
    ELSE Append(series, count)

\* series.current.push(counter.current)
Sample(series, count) == Append(series, count)

\* a timer callback that forgets the deletion series
SamplerTickOneSeries ==
    /\ mounted
    /\ charSeries' = Sample(charSeries, charAmount)
    /\ quietTicks' = IF quietTicks < 0 THEN quietTicks ELSE quietTicks + 1
    /\ lastOp' = Op("tick")
    /\ UNCHANGED << doc, references, selectedText, isDialogOpen, citation,
                    charAmount, backspaceAmount, backspaceSeries,
                    oldTextLength, mounted >>
    /\ UNCHANGED << questionVars, homeVars, apiVars, logVars >>

\* a timer that the cleanup of the effect does not clear
SamplerTickLeaked ==
    /\ charSeries' = Sample(charSeries, charAmount)
    /\ backspaceSeries' = Sample(backspaceSeries, backspaceAmount)
    /\ quietTicks' = IF quietTicks < 0 THEN quietTicks ELSE quietTicks + 1
    /\ lastOp' = Op("tick")
    /\ UNCHANGED << doc, references, selectedText, isDialogOpen, citation,
                    charAmount, backspaceAmount, oldTextLength, mounted >>
    /\ UNCHANGED << questionVars, homeVars, apiVars, logVars >>

\* the timer callback; the cleanup of the effect clears the timer, so it
\* runs only while the component is mounted
SamplerTick ==
    /\ mounted
    /\ charSeries' = Sample(charSeries, charAmount)
    /\ backspaceSeries' = Sample(backspaceSeries, backspaceAmount)
    /\ quietTicks' = IF quietTicks < 0 THEN quietTicks ELSE quietTicks + 1
    /\ lastOp' = Op("tick")
    /\ UNCHANGED << doc, references, selectedText, isDialogOpen, citation,
                    charAmount, backspaceAmount, oldTextLength, mounted >>
    /\ UNCHANGED << questionVars, homeVars, apiVars, logVars >>

(***************************************************************************)
(* HomePage, src/unnamed/part_001: a textarea, two counters (refs) bumped  *)
(* by a keydown listener on the window and two series (state) fed by a     *)
(* 100 ms timer.                                                           *)
(***************************************************************************)
Keys == { "Backspace", "a" }

\* handleKeyDown: the key counts when the textarea has the focus
HomeKeyDown(key, focused) ==
    /\ homeMounted
    /\ IF focused
       THEN IF key = "Backspace"
            THEN /\ backspaceRef' = backspaceRef + 1
                 /\ UNCHANGED keystrokesRef
            ELSE /\ keystrokesRef' = keystrokesRef + 1
                 /\ UNCHANGED backspaceRef
       ELSE UNCHANGED << keystrokesRef, backspaceRef >>
    /\ UNCHANGED << keystrokes, backspaces, homeMounted >>
    /\ UNCHANGED << editorVars, questionVars, apiVars, logVars, quietTicks >>

\* the timer callback: both updates are applied in the render that follows
HomeTick ==
    /\ homeMounted
    /\ keystrokes' = Append(keystrokes, keystrokesRef)
    /\ backspaces' = Append(backspaces, backspaceRef)
    /\ UNCHANGED << keystrokesRef, backspaceRef, homeMounted >>
    /\ UNCHANGED << editorVars, questionVars, apiVars, logVars, quietTicks >>

\* the cleanup of the effect: the timer is cleared, the listener removed
HomeUnmount ==
    /\ homeMounted
    /\ homeMounted' = FALSE
    /\ UNCHANGED << keystrokes, backspaces, keystrokesRef, backspaceRef >>
    /\ UNCHANGED << editorVars, questionVars, apiVars, logVars, quietTicks >>

(***************************************************************************)
(* A session of either page with its sampler running: the browser shows    *)
(* the Editor or HomePage.  In the Editor the user types at the end of     *)
(* the document, deletes, pastes "a", cites, commits, cancels, removes     *)
(* references and clears the document, while the timer ticks.              *)
(***************************************************************************)
InitHome ==
    /\ doc = <<>>
    /\ references = <<>>
    /\ selectedText = <<>>
    /\ isDialogOpen = FALSE
    /\ citation = <<>>
    /\ charAmount = 0
    /\ backspaceAmount = 0
    /\ charSeries = <<>>
    /\ backspaceSeries = <<>>
    /\ oldTextLength = 0
    /\ mounted = FALSE
    /\ lastOp = Op("edit")
    /\ questions = <<>>
    /\ isQuestionsDialogOpen = FALSE
    /\ isGeneratingQuestions = FALSE
    /\ issued = 0
    /\ requests = {}
    /\ alerts = 0
    /\ handled = NoResponse
    /\ keystrokes = <<>>
    /\ backspaces = <<>>
    /\ keystrokesRef = 0
    /\ backspaceRef = 0
    /\ homeMounted = TRUE
    /\ apiCall = NoCall
    /\ apiResponse = NoReply
    /\ events = <<>>
    /\ homeText = <<>>
    /\ download = NoDownload
    /\ quietTicks = 0

InitActivity == Init \/ InitHome

ActivityNodes == MaxNodes
ActivityTyped == MaxTyped + 1
ActivityCount == MaxCount + 1

BoundedActivity ==
    /\ NodeCount(doc) <= ActivityNodes
    /\ MarkerCount(doc) <= 1
    /\ TypedCount(doc) <= ActivityTyped
    /\ Len(references) <= MaxRefs
    /\ charAmount <= ActivityCount
    /\ backspaceAmount <= ActivityCount
    /\ Len(charSeries) <= MaxTicks
    /\ Len(backspaceSeries) <= MaxTicks
    /\ keystrokesRef <= ActivityCount
    /\ backspaceRef <= ActivityCount
    /\ Len(keystrokes) <= MaxTicks
    /\ Len(backspaces) <= MaxTicks

NextActivity ==
    \/ SamplerTick /\ BoundedActivity'
    \/ TypeChar(<<Len(doc)>>) /\ BoundedActivity'
    \/ \E r \in Deletable(doc) : DeleteRange(r[1], r[2]) /\ BoundedActivity'
    \/ EditorPaste(<<"a">>, <<Len(doc)>>) /\ BoundedActivity'
    \/ SetCitation(<<"c">>)
    \/ AddReference(Min(Clocks), NoRange) /\ BoundedActivity'
    \/ CancelDialog /\ BoundedActivity'
    \/ \E i \in 1..Len(references) : RemoveReference(i)
    \/ ClearDocument
    \/ Unmount
    \/ \E key \in Keys, focused \in BOOLEAN :
          HomeKeyDown(key, focused) /\ BoundedActivity'
    \/ HomeTick /\ BoundedActivity'
    \/ HomeUnmount

SpecActivity == InitActivity /\ [][NextActivity]_vars

(***************************************************************************)
(* The activity export of both pages: the file is a string, the samples    *)
(* being written in decimal digits.                                        *)
(***************************************************************************)
MaxDownloads == 2  \* files downloaded in a session

Comma == ","

\* String(n), the digits of a sample taken as one character
Digits(n) == << ToString(n) >>

\* the elements of an array of numbers as join writes them
Strings(series) == [i \in 1..Len(series) |-> Digits(series[i])]

\* Array.prototype.join(sep), over elements that are strings
RECURSIVE JoinWith(_, _)
JoinWith(cells, sep) ==
    IF cells = <<>> THEN <<>>
    ELSE IF Len(cells) = 1 THEN cells[1]
    ELSE cells[1] \o << sep >> \o JoinWith(Tail(cells), sep)

\* an export that writes the deletion row first
EditorCsvSwapped(chars, backs) ==
    JoinWith(Strings(backs), Comma) \o << "\n" >>
       \o JoinWith(Strings(chars), Comma)

\* handleExportToCsv: csvContent
EditorCsv(chars, backs) ==
    JoinWith(Strings(chars), Comma) \o << "\n" >>
       \o JoinWith(Strings(backs), Comma)

Max(a, b) == IF a >= b THEN a ELSE b

\* exportCSV of HomePage: pad(arr), arr[i] ?? ""
PadRow(arr, maxLength) ==
    [i \in 1..maxLength |-> IF i <= Len(arr) THEN Digits(arr[i]) ELSE <<>>]

\* exportCSV of HomePage: csv
HomeCsv(keys, backs) ==
    LET maxLength == Max(Len(keys), Len(backs))
        rows == << PadRow(keys, maxLength), PadRow(backs, maxLength) >>
    IN JoinWith([i \in 1..2 |-> JoinWith(rows[i], Comma)], "\n")

\* the Export button of the Editor
ExportToCsv ==
    /\ mounted
    /\ download' = Download(download.n + 1, "metrics",
                            EditorCsv(charSeries, backspaceSeries))
    /\ lastOp' = Op("export")
    /\ UNCHANGED << doc, references, selectedText, isDialogOpen, citation,
                    charAmount, backspaceAmount, charSeries, backspaceSeries,
                    oldTextLength, mounted >>
    /\ UNCHANGED << questionVars, homeVars, apiVars, events, homeText,
                    quietTicks >>

\* the Exportar CSV button of HomePage
HomeExportCSV ==
    /\ homeMounted
    /\ download' = Download(download.n + 1, "activity-log",
                            HomeCsv(keystrokes, backspaces))
    /\ UNCHANGED << editorVars, questionVars, homeVars, apiVars, events,
                    homeText, quietTicks >>

\* a session of either page in which the user types, deletes, clears the
\* document and exports while the timer ticks
NextExport ==
    \/ SamplerTick /\ BoundedActivity'
    \/ TypeChar(<<Len(doc)>>) /\ BoundedActivity'
    \/ \E r \in Deletable(doc) : DeleteRange(r[1], r[2]) /\ BoundedActivity'
    \/ ClearDocument
    \/ download.n < MaxDownloads /\ ExportToCsv
    \/ \E key \in Keys, focused \in BOOLEAN :
          HomeKeyDown(key, focused) /\ BoundedActivity'
    \/ HomeTick /\ BoundedActivity'
    \/ download.n < MaxDownloads /\ HomeExportCSV

SpecExport == InitActivity /\ [][NextExport]_vars

(***************************************************************************)
(* The event-log page, HomePage of src/unnamed/part_000: every change,     *)
(* keydown and click of the textarea is logged, and the log is exported    *)
(* as JSON.  A JSON value is a record: t is "num" (n), "str" (s), "arr"    *)
(* (a: its items) or "obj" (o: its members [k, v], in insertion order).    *)
(***************************************************************************)
MaxEvents == 2     \* entries of the event log
MaxCoord == 1      \* value of clientX and clientY

Num(n) == [t |-> "num", n |-> n, s |-> <<>>, a |-> <<>>, o |-> <<>>]
Str(s) == [t |-> "str", n |-> 0, s |-> s, a |-> <<>>, o |-> <<>>]
Arr(a) == [t |-> "arr", n |-> 0, s |-> <<>>, a |-> a, o |-> <<>>]
Obj(o) == [t |-> "obj", n |-> 0, s |-> <<>>, a |-> <<>>, o |-> o]
Member(k, v) == [k |-> << k >>, v |-> v]

\* the entries that the handlers build
ChangeEntry(timestamp, value) ==
    Obj(<< Member("timestamp", Num(timestamp)), Member("type", Str(<<"change">>)),
           Member("value", Str(value)) >>)

KeypressEntry(timestamp, key) ==
    Obj(<< Member("timestamp", Num(timestamp)), Member("type", Str(<<"keypress">>)),
           Member("key", Str(key)) >>)

ClickEntry(timestamp, x, y) ==
    Obj(<< Member("timestamp", Num(timestamp)), Member("type", Str(<<"click">>)),
           Member("coords", Obj(<< Member("x", Num(x)), Member("y", Num(y)) >>)) >>)

DoubleQuote == "\""
BackSlash == "\\"

\* a string literal that does not escape its characters
UnescapedChar(c) == << c >>

\* JSON.stringify of a string: the escape of one character
EscapedChar(c) ==
    IF c = DoubleQuote THEN << BackSlash, DoubleQuote >>
    ELSE IF c = BackSlash THEN << BackSlash, BackSlash >>
    ELSE IF c = "\n" THEN << BackSlash, "n" >>
    ELSE << c >>

RECURSIVE Quoted(_)
Quoted(s) ==
    IF s = <<>> THEN << DoubleQuote >>
    ELSE EscapedChar(Head(s)) \o Quoted(Tail(s))

\* JSON.stringify of a string
StringLiteral(s) == << DoubleQuote >> \o Quoted(s)

\* the indentation of JSON.stringify(value, null, 2) at a depth
Indent(depth) == [i \in 1..(2 * depth) |-> " "]

\* JSON.stringify(value, null, 2) of a value that stands at a depth
RECURSIVE Stringify(_, _)
Stringify(v, depth) ==
    LET Item(i) == Indent(depth + 1) \o Stringify(v.a[i], depth + 1)
        Entry(i) == Indent(depth + 1) \o StringLiteral(v.o[i].k)
                       \o << ":", " " >> \o Stringify(v.o[i].v, depth + 1)
        Lined(parts) == << "\n" >> \o JoinWith(parts, ",") \o << "\n" >>
                           \o Indent(depth)
    IN IF v.t = "num" THEN Digits(v.n)
       ELSE IF v.t = "str" THEN StringLiteral(v.s)
       ELSE IF v.t = "arr"
       THEN << "[" >>
               \o (IF v.a = <<>> THEN <<>>
                   ELSE Lined([i \in 1..Len(v.a) |->
                                  IF i = 1 THEN Item(i)
                                  ELSE << "\n" >> \o Item(i)]))
               \o << "]" >>
       ELSE << "{" >>
               \o (IF v.o = <<>> THEN <<>>
                   ELSE Lined([i \in 1..Len(v.o) |->
                                  IF i = 1 THEN Entry(i)
                                  ELSE << "\n" >> \o Entry(i)]))
               \o << "}" >>

\* logEvent
LogEvent(entry) ==
    /\ events' = Append(events, entry)
    /\ UNCHANGED << download, editorVars, questionVars, homeVars, apiVars,
                    quietTicks >>

\* the values of e.timeStamp: the time does not go back
TimeStamps ==
    { t \in 1..MaxClock :
         events # <<>> => t >= events[Len(events)].o[1].v.n }

\* what the textarea can hold and what e.key can be
LogTexts ==
    { <<>>, << "a" >>, << DoubleQuote >>, << BackSlash >>, << "\n" >>,
      << "a", DoubleQuote >> }

LogKeys == { << "a" >>, << DoubleQuote >>, << "Backspace" >> }

\* handleChange
LogChange(timestamp, value) ==
    /\ homeText' = value
    /\ LogEvent(ChangeEntry(timestamp, value))

\* handleKeyDown
LogKeyDown(timestamp, key) ==
    /\ LogEvent(KeypressEntry(timestamp, key))
    /\ UNCHANGED homeText

\* handleClick
LogClick(timestamp, x, y) ==
    /\ LogEvent(ClickEntry(timestamp, x, y))
    /\ UNCHANGED homeText

\* exportLog
ExportLog ==
    /\ download' = Download(download.n + 1, "event-log",
                            Stringify(Arr(events), 0))
    /\ UNCHANGED << events, homeText, editorVars, questionVars, homeVars,
                    apiVars, quietTicks >>

InitLog ==
    /\ events = <<>>
    /\ homeText = <<>>
    /\ download = NoDownload
    /\ doc = <<>>
    /\ references = <<>>
    /\ selectedText = <<>>
    /\ isDialogOpen = FALSE
    /\ citation = <<>>
    /\ charAmount = 0
    /\ backspaceAmount = 0
    /\ charSeries = <<>>
    /\ backspaceSeries = <<>>
    /\ oldTextLength = 0
    /\ mounted = FALSE
    /\ lastOp = Op("edit")
    /\ questions = <<>>
    /\ isQuestionsDialogOpen = FALSE
    /\ isGeneratingQuestions = FALSE
    /\ issued = 0
    /\ requests = {}
    /\ alerts = 0
    /\ handled = NoResponse
    /\ keystrokes = <<>>
    /\ backspaces = <<>>
    /\ keystrokesRef = 0
    /\ backspaceRef = 0
    /\ homeMounted = FALSE
    /\ apiCall = NoCall
    /\ apiResponse = NoReply
    /\ quietTicks = 0

NextLog ==
    \/ \E timestamp \in TimeStamps, value \in LogTexts :
          /\ Len(events) < MaxEvents /\ value # homeText
          /\ LogChange(timestamp, value)
    \/ \E timestamp \in TimeStamps, key \in LogKeys :
          Len(events) < MaxEvents /\ LogKeyDown(timestamp, key)
    \/ \E timestamp \in TimeStamps, x \in 0..MaxCoord, y \in 0..MaxCoord :
          Len(events) < MaxEvents /\ LogClick(timestamp, x, y)
    \/ download.n < MaxDownloads /\ ExportLog

SpecLog == InitLog /\ [][NextLog]_vars

(***************************************************************************)
(* Question generation in the Editor: handleGenerateQuestions runs up to   *)
(* its fetch in one step and, for each call, from the response to its end  *)
(* in another step.                                                        *)
(***************************************************************************)
MinTextLength == 30
MaxRequests == 2   \* calls of fetch in a session
MaxAlerts == 2     \* calls of alert in a session

\* the number of questions of a success response
QuestionCount == 3

\* the fixed default question of the endpoint
DefaultQuestion == << "What is the main idea of this text?" >>

\* a length check that forgets to trim
GenerateRefusedNoTrim(text) == ~Truthy(text) \/ Len(text) < MinTextLength

\* handleGenerateQuestions: !text || text.trim().length < 30
GenerateRefused(text) == ~Truthy(text) \/ Len(Trim(text)) < MinTextLength

\* response.ok
Ok(status) == status >= 200 /\ status <= 299

\* the responses of the model
QuestionLists ==
    { << <<"p">>, <<"q">> >>, << <<"p">>, <<"q">>, <<"r">> >> }

Responses ==
    { Response(200, TRUE, list) : list \in QuestionLists }
       \cup { Response(200, FALSE, <<>>), Response(500, FALSE, <<>>),
              Response(0, FALSE, <<>>) }

\* the response makes handleGenerateQuestions throw
ResponseFails(response) ==
    response.status = 0 \/ ~Ok(response.status) \/ ~response.hasList

\* data.questions.map((q, index) => ({ id: `q-${Date.now()}-${index}`, text: q }))
FormatQuestions(list, clock) ==
    [i \in 1..Len(list) |-> [id |-> <<clock, i - 1>>, text |-> list[i]]]

\* the Generate Questions button
GenerateQuestions ==
    LET text == InnerText(doc)
    IN /\ mounted
       /\ IF GenerateRefused(text)
          THEN /\ alerts' = alerts + 1
               /\ lastOp' = Op("generateRefused")
               /\ UNCHANGED << questions, isQuestionsDialogOpen,
                               isGeneratingQuestions, issued, requests >>
          ELSE /\ isGeneratingQuestions' = TRUE
               /\ questions' = <<>>
               /\ isQuestionsDialogOpen' = TRUE
               /\ issued' = issued + 1
               /\ requests' = requests \cup {issued + 1}
               /\ lastOp' = Op("generate")
               /\ UNCHANGED alerts
       /\ UNCHANGED << doc, references, selectedText, isDialogOpen, citation,
                       charAmount, backspaceAmount, charSeries,
                       backspaceSeries, oldTextLength, mounted, handled >>
       /\ UNCHANGED << homeVars, apiVars, logVars, quietTicks >>

\* a continuation that clears the loading flag on success only
QuestionsResponseNoFinally(serial, response, clock) ==
    /\ serial \in requests
    /\ requests' = requests \ {serial}
    /\ handled' = [serial |-> serial, response |-> response]
    /\ IF ResponseFails(response)
       THEN /\ clock = 1
            /\ alerts' = alerts + 1
            /\ UNCHANGED << questions, isGeneratingQuestions >>
       ELSE /\ questions' = FormatQuestions(response.list, clock)
            /\ isGeneratingQuestions' = FALSE
            /\ UNCHANGED alerts
    /\ lastOp' = Op("response")
    /\ UNCHANGED << doc, references, selectedText, isDialogOpen, citation,
                    charAmount, backspaceAmount, charSeries, backspaceSeries,
                    oldTextLength, mounted, isQuestionsDialogOpen, issued >>
    /\ UNCHANGED << homeVars, apiVars, logVars, quietTicks >>

\* the call with this serial number gets its response when Date.now() is
\* clock: the rest of handleGenerateQuestions runs
QuestionsResponse(serial, response, clock) ==
    /\ serial \in requests
    /\ requests' = requests \ {serial}
    /\ handled' = [serial |-> serial, response |-> response]
    /\ IF ResponseFails(response)
       THEN /\ clock = 1
            /\ alerts' = alerts + 1
            /\ UNCHANGED questions
       ELSE /\ questions' = FormatQuestions(response.list, clock)
            /\ UNCHANGED alerts
    /\ isGeneratingQuestions' = FALSE
    /\ lastOp' = Op("response")
    /\ UNCHANGED << doc, references, selectedText, isDialogOpen, citation,
                    charAmount, backspaceAmount, charSeries, backspaceSeries,
                    oldTextLength, mounted, isQuestionsDialogOpen, issued >>
    /\ UNCHANGED << homeVars, apiVars, logVars, quietTicks >>

\* the Close button of the questions dialog, and onOpenChange(false)
CloseQuestionsDialog ==
    /\ mounted /\ isQuestionsDialogOpen
    /\ isQuestionsDialogOpen' = FALSE
    /\ lastOp' = Op("closeQuestions")
    /\ UNCHANGED << doc, references, selectedText, isDialogOpen, citation,
                    charAmount, backspaceAmount, charSeries, backspaceSeries,
                    oldTextLength, mounted, questions, isGeneratingQuestions,
                    issued, requests, alerts, handled >>
    /\ UNCHANGED << homeVars, apiVars, logVars, quietTicks >>

\* the questions dialog is modal: while it is open the toolbar behind it
\* takes no click
ToolbarReachable == ~isQuestionsDialogOpen

(***************************************************************************)
(* A session of question generation: the user has typed a document of      *)
(* letters, with or without a blank before and after them, then asks for   *)
(* questions, closes the questions dialog and clears the document, while   *)
(* responses arrive in any order.                                          *)
(***************************************************************************)
Letters(n) == [i \in 1..n |-> "a"]

Blanks == { <<>>, <<Blank>> }

TypedTexts ==
    { lead \o Letters(n) \o trail :
         lead \in Blanks, trail \in Blanks,
         n \in { MinTextLength - 1, MinTextLength } }

InitQuestions ==
    /\ \E text \in TypedTexts :
          /\ doc = TextNodes(text)
          /\ charAmount = Len(text)
          /\ oldTextLength = Len(text)
    /\ references = <<>>
    /\ selectedText = <<>>
    /\ isDialogOpen = FALSE
    /\ citation = <<>>
    /\ backspaceAmount = 0
    /\ charSeries = <<>>
    /\ backspaceSeries = <<>>
    /\ mounted = TRUE
    /\ lastOp = Op("edit")
    /\ questions = <<>>
    /\ isQuestionsDialogOpen = FALSE
    /\ isGeneratingQuestions = FALSE
    /\ issued = 0
    /\ requests = {}
    /\ alerts = 0
    /\ handled = NoResponse
    /\ keystrokes = <<>>
    /\ backspaces = <<>>
    /\ keystrokesRef = 0
    /\ backspaceRef = 0
    /\ homeMounted = FALSE
    /\ apiCall = NoCall
    /\ apiResponse = NoReply
    /\ events = <<>>
    /\ homeText = <<>>
    /\ download = NoDownload
    /\ quietTicks = -1

\* the fetch of the call with this serial number settles, with any response
Settle(serial) ==
    \E response \in Responses, clock \in 1..MaxClock :
       QuestionsResponse(serial, response, clock)

\* a click on Generate Questions is taken only while the alerts it and the
\* calls in flight may raise stay within MaxAlerts: no response is held back
NextQuestions ==
    \/ /\ ToolbarReachable
       /\ issued < MaxRequests
       /\ alerts + Cardinality(requests) < MaxAlerts
       /\ GenerateQuestions
    \/ \E serial \in requests : Settle(serial)
    \/ CloseQuestionsDialog
    \/ ClearDocument

SpecQuestions == InitQuestions /\ [][NextQuestions]_vars

\* every fetch settles: the promise is fulfilled or rejected, and the
\* event loop then runs the rest of handleGenerateQuestions
SpecQuestionsFair ==
    SpecQuestions /\ \A serial \in 1..MaxRequests : WF_vars(Settle(serial))

(***************************************************************************)
(* The generation endpoint, handler of src/pages/api/generate-questions.ts.*)
(* One call is a function of the request, the server configuration and     *)
(* what the upstream service does.                                         *)
(***************************************************************************)
MinRequestLength == 30
MaxLines == 4      \* lines of the text generated upstream

NewLine == "\n"

\* String.prototype.split('\n')
RECURSIVE Split(_)
Split(s) ==
    IF \A i \in 1..Len(s) : s[i] # NewLine THEN << s >>
    ELSE LET i == Min({ j \in 1..Len(s) : s[j] = NewLine })
         IN << SubSeq(s, 1, i - 1) >> \o Split(SubSeq(s, i + 1, Len(s)))

\* Array.prototype.join('\n')
RECURSIVE Join(_)
Join(lines) ==
    IF lines = <<>> THEN <<>>
    ELSE IF Len(lines) = 1 THEN lines[1]
    ELSE lines[1] \o << NewLine >> \o Join(Tail(lines))

\* startsWith('Q:')
StartsWithMarker(line) == Len(line) >= 2 /\ line[1] = "Q" /\ line[2] = ":"

\* a filter that forgets to trim the line
IsQuestionLineNoTrim(line) == StartsWithMarker(line)

\* line => line.trim().startsWith('Q:')
IsQuestionLine(line) == StartsWithMarker(Trim(line))

\* line => line.trim().replace(/^Q:\s*/, '')
StripMarker(line) ==
    LET t == Trim(line)
    IN IF StartsWithMarker(t) THEN TrimStart(SubSeq(t, 3, Len(t))) ELSE t

\* the questions extracted from responseText
ExtractQuestions(responseText) ==
    LET marked == SelectSeq(Split(responseText), IsQuestionLine)
        stripped == [i \in 1..Len(marked) |-> StripMarker(marked[i])]
    IN SelectSeq(stripped, Truthy)

\* while (questions.length < 3) questions.push(default)
RECURSIVE PadQuestions(_)
PadQuestions(list) ==
    IF Len(list) < QuestionCount
    THEN PadQuestions(Append(list, DefaultQuestion))
    ELSE list

\* questions.slice(0, 3)
FirstQuestions(list) == SubSeq(list, 1, Min({QuestionCount, Len(list)}))

\* a check of the text that forgets to trim
TextInvalidNoTrim(text) ==
    \/ text.kind = "absent"
    \/ text.kind = "number"
    \/ ~Truthy(text.value)
    \/ Len(text.value) < MinRequestLength

\* !text || typeof text !== 'string' || text.trim().length < 30
TextInvalid(text) ==
    \/ text.kind = "absent"
    \/ text.kind = "number"
    \/ ~Truthy(text.value)
    \/ Len(Trim(text.value)) < MinRequestLength

\* the payload has candidates[0].content.parts
HasParts(payload) == payload \in {"emptyParts", "noText", "text"}

\* reading the payload throws: data is null, parts is empty, or the first
\* part has no text to split
PayloadThrows(payload) == payload \in {"null", "emptyParts", "noText"}

\* handler
Handler(call) ==
    LET up == call.upstream
        failed == Reply(500, "Failed to generate questions", TRUE, <<>>)
    IN IF call.method # "POST"
       THEN Reply(405, "Method not allowed", FALSE, <<>>)
       ELSE IF TextInvalid(call.text)
       THEN Reply(400, "Invalid input", TRUE, <<>>)
       ELSE IF ~call.apiKey
       THEN Reply(500, "Server configuration error", TRUE, <<>>)
       ELSE IF up.kind = "transport" THEN failed
       ELSE IF ~Ok(up.status)
       THEN Reply(up.status, "Gemini API error", TRUE, <<>>)
       ELSE IF up.payload = "badJson" \/ PayloadThrows(up.payload) THEN failed
       ELSE LET extracted == IF HasParts(up.payload)
                             THEN ExtractQuestions(up.text)
                             ELSE <<>>
            IN Reply(200, "", FALSE, FirstQuestions(PadQuestions(extracted)))

\* the call reaches fetch(...generateContent...): the method, the text and
\* the API key have passed their checks
Fetches(call) ==
    call.method = "POST" /\ ~TextInvalid(call.text) /\ call.apiKey

\* one call of the endpoint
Endpoint ==
    /\ apiResponse = NoReply
    /\ apiResponse' = Handler(apiCall)
    /\ UNCHANGED << apiCall, editorVars, questionVars, homeVars, logVars,
                    quietTicks >>

(***************************************************************************)
(* The calls of the model.                                                 *)
(***************************************************************************)
Methods == { "POST", "GET" }

BodyTexts ==
    { BodyText("absent", <<>>), BodyText("number", <<>>),
      BodyText("string", <<>>) }
       \cup { BodyText("string", text) : text \in TypedTexts }

\* a text of the request that the endpoint accepts
GoodText == BodyText("string", Letters(MinRequestLength))

\* the lines of a generated text
Lines ==
    { <<>>, << "a" >>, << "Q", ":" >>, << "Q", ":", Blank, "a" >>,
      << Blank, "Q", ":", "b", Blank >>, << "Q", ":", "c" >> }

RECURSIVE LineSeqs(_)
LineSeqs(n) ==
    IF n = 0 THEN { <<>> }
    ELSE LET shorter == LineSeqs(n - 1)
         IN shorter \cup { Append(ls, l) : ls \in shorter, l \in Lines }

Payloads ==
    { "badJson", "null", "noCandidates", "emptyCandidates", "noContent",
      "noParts", "emptyParts", "noText" }

Upstreams ==
    { Upstream("transport", 0, "null", <<>>, <<>>) }
       \cup { Upstream("http", status, payload, <<>>, <<>>) :
                 status \in {200, 404, 500}, payload \in Payloads }
       \cup { Upstream("http", 200, "text", lines, Join(lines)) :
                 lines \in LineSeqs(MaxLines) }

Calls ==
    { Call(method, text, apiKey, upstream) :
         method \in Methods, text \in BodyTexts, apiKey \in BOOLEAN,
         upstream \in { u \in Upstreams : Len(u.lines) <= 1 } }
       \cup { Call("POST", GoodText, TRUE, upstream) : upstream \in Upstreams }

InitEndpoint ==
    /\ apiCall \in Calls
    /\ apiResponse = NoReply
    /\ doc = <<>>
    /\ references = <<>>
    /\ selectedText = <<>>
    /\ isDialogOpen = FALSE
    /\ citation = <<>>
    /\ charAmount = 0
    /\ backspaceAmount = 0
    /\ charSeries = <<>>
    /\ backspaceSeries = <<>>
    /\ oldTextLength = 0
    /\ mounted = FALSE
    /\ lastOp = Op("edit")
    /\ questions = <<>>
    /\ isQuestionsDialogOpen = FALSE
    /\ isGeneratingQuestions = FALSE
    /\ issued = 0
    /\ requests = {}
    /\ alerts = 0
    /\ handled = NoResponse
    /\ keystrokes = <<>>
    /\ backspaces = <<>>
    /\ keystrokesRef = 0
    /\ backspaceRef = 0
    /\ homeMounted = FALSE
    /\ events = <<>>
    /\ homeText = <<>>
    /\ download = NoDownload
    /\ quietTicks = 0

NextEndpoint == Endpoint

SpecEndpoint == InitEndpoint /\ [][NextEndpoint]_vars

(***************************************************************************)
(* The steps the properties speak about.                                   *)
(***************************************************************************)
PasteStep ==
    \E text \in PasteTexts, pos \in Positions(doc) :
        PasteIntercepted(text) /\ (EditorPaste(text, pos) \/ OldEditorPaste(text, pos))

CommitStep == \E clock \in Clocks, sel \in Selections(doc) : AddReference(clock, sel)

ValidCitation == Trim(citation) # <<>> /\ Trim(selectedText) # <<>>

MarkerPresent == MarkerCount(doc) > 0

\* the entry a commit has just appended
Added == references'[Len(references')]

(***************************************************************************)
(* C1.  A paste that the Editor takes over, and the Cancel that follows it *)
(* at once, both leave the visible text of the document as it was: the     *)
(* pasted text is not inserted, nothing is duplicated, nothing is lost.    *)
(***************************************************************************)
C1_PasteCancelKeepsText ==
    [][ (PasteStep \/ (lastOp.op = "paste" /\ (CancelDialog \/ OldCancelDialog)))
        => InnerText(doc') = InnerText(doc) ]_vars

OneToOne ==
    /\ \A i \in 1..Len(references) : SpanCount(doc, references[i].id) = 1
    /\ \A id \in SpanIds(doc) :
          Cardinality({ i \in 1..Len(references) : references[i].id = id }) = 1

C3_OneToOne == mounted => OneToOne

(***************************************************************************)
(* C4.  From a state in which references and spans are one to one,         *)
(* removing a reference in the sidebar, and deleting its span in the       *)
(* document, both end with the id neither in the store nor on a span, and  *)
(* with every other reference and its spans as they were.                  *)
(***************************************************************************)
Gone(id) ==
    /\ \A j \in 1..Len(references') : references'[j].id # id
    /\ SpanCount(doc', id) = 0

OthersKept(id) ==
    /\ references' = WithoutReference(references, id)
    /\ \A j \in 1..Len(references) :
          references[j].id # id
             => SpanCount(doc', references[j].id) = SpanCount(doc, references[j].id)

C4_RemovalsConverge ==
    [][ OneToOne =>
        /\ \A i \in 1..Len(references) :
              RemoveReference(i) => Gone(references[i].id) /\ OthersKept(references[i].id)
        /\ \A path \in Paths(doc) :
              (/\ NodeAt(doc, path).k = "span"
               /\ NodeAt(doc, path).id \in { references[j].id : j \in 1..Len(references) }
               /\ DeleteRange(path, Last(path)))
              => Gone(NodeAt(doc, path).id) /\ OthersKept(NodeAt(doc, path).id) ]_vars

(***************************************************************************)
(* C5.  In every reachable state the document holds at most one position   *)
(* marker.                                                                 *)
(***************************************************************************)
C5_AtMostOneMarker == MarkerCount(doc) <= 1

(***************************************************************************)
(* C6.  No position marker is left in the document by a commit that goes   *)
(* through, by Cancel, by a dismissal of the dialog or by the unmount,     *)
(* whatever the pasted text and the store (the document holding at most    *)
(* one marker when the dialog is resolved).                                *)
(***************************************************************************)
C6_MarkerResolved ==
    [][ (/\ MarkerCount(doc) <= 1
         /\ \/ isDialogOpen /\ ValidCitation /\ CommitStep
            \/ CancelDialog
            \/ DismissDialog
            \/ Unmount)
        => MarkerCount(doc') = 0 ]_vars

C8_BlankCommitIsNoOp ==
    [][ (isDialogOpen /\ ~ValidCitation /\ CommitStep)
        => /\ isDialogOpen'
           /\ UNCHANGED << doc, references, selectedText, citation, charAmount,
                           backspaceAmount, charSeries, backspaceSeries,
                           oldTextLength >> ]_vars

C8_CommitRefused ==
    /\ lastOp.op = "commitRefused"
    /\ isDialogOpen
    /\ citation = <<Blank>>
    /\ MarkerCount(doc) = 1

(***************************************************************************)
(* C9.  When the dialog reports itself closed, the document, the store,    *)
(* the marker and the dialog state end as Cancel would leave them from     *)
(* the same state.                                                         *)
(***************************************************************************)
C9_DismissalIsCancel ==
    [][ DismissDialog
        => \A d \in {doc'}, refs \in {references'}, open \in {isDialogOpen'} :
              ENABLED (/\ CancelDialog
                       /\ doc' = d
                       /\ references' = refs
                       /\ isDialogOpen' = open
                       /\ ~isDialogOpen') ]_vars

C9_Dismissed ==
    /\ lastOp.op = "dismiss" /\ lastOp.marker
    /\ ~isDialogOpen
    /\ MarkerCount(doc) = 0

(***************************************************************************)
(* C10.  A paste whose text is empty or blank is left to the browser: no   *)
(* marker is inserted, the captured text, the dialog and the store are     *)
(* unchanged, and the default paste goes ahead.                            *)
(***************************************************************************)
C10_BlankPasteIgnored ==
    [][ \A text \in PasteTexts :
          (Trim(text) = <<>> /\ \E pos \in Positions(doc) : EditorPaste(text, pos))
          => /\ UNCHANGED << doc, references, selectedText, isDialogOpen >>
             /\ MarkerCount(doc') = MarkerCount(doc)
             /\ lastOp'.op = "pasteIgnored" ]_vars

C10_PasteIgnored ==
    /\ lastOp.op = "pasteIgnored"
    /\ ~isDialogOpen
    /\ MarkerCount(doc) = 0
    /\ selectedText = <<>>


(***************************************************************************)
(* Activity accounting.                                                    *)
(***************************************************************************)

\* C11: the step of the clear-document handler leaves the Reference Store
\* empty, both activity series empty, both counters at 0 and the document
\* empty, whatever the state before it was; the handler being one step, no
\* tick and no input handler runs between two of its assignments
C11_ClearResetsAll ==
    [][lastOp'.op = "clear" =>
          /\ references' = <<>>
          /\ charSeries' = <<>> /\ backspaceSeries' = <<>>
          /\ charAmount' = 0 /\ backspaceAmount' = 0
          /\ doc' = <<>>]_vars

\* the document has just been cleared, after the user had typed in it
C11_Cleared == lastOp.op = "clear" /\ oldTextLength > 0

\* C12: on every step that is not the clear-document handler, of the Editor
\* (input event, tick, paste, commit, cancel, sidebar remove) and of
\* HomePage (keydown, tick), no activity counter decreases
C12_CountersNeverDecrease ==
    [][lastOp'.op # "clear" =>
          /\ charAmount' >= charAmount
          /\ backspaceAmount' >= backspaceAmount
          /\ keystrokesRef' >= keystrokesRef
          /\ backspaceRef' >= backspaceRef]_vars

\* both counters have grown, a reference was committed and the timer has
\* ticked since
C12_Counted ==
    /\ charAmount > 0 /\ backspaceAmount > 0
    /\ references # <<>>
    /\ lastOp.op = "tick"

\* the two series of a page have the same length
SameLength ==
    /\ Len(charSeries) = Len(backspaceSeries)
    /\ Len(keystrokes) = Len(backspaces)

\* a step that changes a series of the Editor is the clear-document handler
\* or appends the current counter to each series; a tick does the latter
LockStep ==
    /\ charSeries' # charSeries \/ backspaceSeries' # backspaceSeries
          \/ lastOp'.op = "tick" =>
             \/ lastOp'.op = "clear"
             \/ /\ charSeries' = Append(charSeries, charAmount)
                /\ backspaceSeries' = Append(backspaceSeries, backspaceAmount)
    /\ keystrokes' # keystrokes \/ backspaces' # backspaces =>
          /\ keystrokes' = Append(keystrokes, keystrokesRef)
          /\ backspaces' = Append(backspaces, backspaceRef)

\* C13: the keystroke series and the deletion series always have the same
\* length: every tick appends one value to each, also when no counter has
\* changed, and no other step changes the length of only one of them
C13_SeriesInLockStep == []SameLength /\ [][LockStep]_vars

\* a tick has appended to both series although no counter had changed
\* since the tick before
C13_TickedUnchanged ==
    /\ lastOp.op = "tick"
    /\ Len(charSeries) >= 2
    /\ charSeries[Len(charSeries)] = charSeries[Len(charSeries) - 1]
    /\ backspaceSeries[Len(backspaceSeries)]
          = backspaceSeries[Len(backspaceSeries) - 1]

\* the last two values of a series are equal
LastTwoEqual(series) == series[Len(series)] = series[Len(series) - 1]

\* C14: after N ticks since the Editor was mounted or cleared, with no
\* input event in between, both series have length N and, when N >= 2, the
\* last two values of each series are equal
C14_QuietTicks ==
    quietTicks >= 0 =>
       /\ Len(charSeries) = quietTicks
       /\ Len(backspaceSeries) = quietTicks
       /\ quietTicks >= 2 =>
             LastTwoEqual(charSeries) /\ LastTwoEqual(backspaceSeries)

\* two ticks have passed since a document the user had typed in was cleared
C14_TwoQuietTicks == quietTicks >= 2 /\ oldTextLength > 0


(***************************************************************************)
(* Question generation: the client.                                        *)
(***************************************************************************)

\* a step of the Generate Questions button
GenerateStep == lastOp'.op \in {"generate", "generateRefused"}

\* a step in which a response is handled
ResponseStep == handled' # handled

\* C15: while a request is outstanding no second one is issued: a step
\* that calls fetch starts from a state with no call awaiting its response
C15_OneRequestAtATime == [][issued' > issued => requests = {}]_vars

\* C16: a response to a call that is not the newest one is ignored: the
\* step that handles it leaves the displayed questions and the loading
\* flag as they were
C16_StaleResponseIgnored ==
    [][ResponseStep /\ handled'.serial < issued =>
          /\ questions' = questions
          /\ isGeneratingQuestions' = isGeneratingQuestions]_vars

\* C17: Generate Questions on a document whose trimmed text has fewer than
\* 30 characters sends nothing and notifies the user once; the questions,
\* the loading flag and the questions dialog stay as they were
C17_ShortTextRejected ==
    [][GenerateStep /\ Len(Trim(InnerText(doc))) < MinTextLength =>
          /\ issued' = issued /\ requests' = requests
          /\ alerts' = alerts + 1
          /\ UNCHANGED << questions, isGeneratingQuestions,
                          isQuestionsDialogOpen >>]_vars

\* a document of 30 or more characters, fewer than 30 of them within the
\* blanks around them, has just been refused
C17_Rejected ==
    /\ lastOp.op = "generateRefused"
    /\ Len(InnerText(doc)) >= MinTextLength
    /\ alerts > 0 /\ issued = 0

\* the list padded with the default question
Padded(list) ==
    [i \in 1..QuestionCount |->
        IF i <= Len(list) THEN list[i] ELSE DefaultQuestion]

\* C18: after a success response with fewer than 3 questions the client
\* shows 3 questions: those received, then the default question
C18_ShortListPadded ==
    [][/\ ResponseStep
       /\ ~ResponseFails(handled'.response)
       /\ Len(handled'.response.list) < QuestionCount
       => /\ Len(questions') = QuestionCount
          /\ \A i \in 1..QuestionCount :
                questions'[i].text = Padded(handled'.response.list)[i]]_vars


(***************************************************************************)
(* Question generation: the endpoint.                                      *)
(***************************************************************************)

\* the endpoint has answered
Answered == apiResponse # NoReply

\* the call passes the checks of the request and reaches the upstream part
Accepted == apiCall.method = "POST" /\ ~TextInvalid(apiCall.text)

\* the questions recovered from the lines of a text: of each line that
\* starts with Q: once trimmed, what is left without the marker and the
\* white space around it, when something is left
RECURSIVE Recovered(_)
Recovered(lines) ==
    IF lines = <<>> THEN <<>>
    ELSE LET t == Trim(Head(lines))
             rest == Trim(SubSeq(t, 3, Len(t)))
         IN (IF StartsWithMarker(t) /\ rest # <<>> THEN << rest >> ELSE <<>>)
               \o Recovered(Tail(lines))

\* C19: for every generated text the success response holds exactly 3
\* questions: the first three recovered from the lines that start with Q:,
\* in their order, then the default question up to 3
C19_ThreeQuestions ==
    Answered =>
       /\ apiResponse.status = 200 =>
             Len(apiResponse.list) = QuestionCount /\ apiResponse.error = ""
       /\ Accepted /\ apiCall.apiKey /\ apiCall.upstream.payload = "text" =>
             /\ apiResponse.status = 200
             /\ apiResponse.list = Padded(Recovered(apiCall.upstream.lines))

\* the endpoint has answered a text of four question lines, the first of
\* them empty after its marker and the second one indented
C19_Extracted ==
    /\ Answered
    /\ apiCall.upstream.lines =
          << << "Q", ":" >>, << Blank, "Q", ":", "b", Blank >>,
             << "Q", ":", "c" >>, << "Q", ":", Blank, "a" >> >>
    /\ apiResponse.list =
          << << "b" >>, << "c" >>, << "a" >> >>

\* the payload of a success response of the upstream service is malformed:
\* no candidates, no content parts, or no text
Malformed ==
    /\ apiCall.upstream.kind = "http" /\ Ok(apiCall.upstream.status)
    /\ apiCall.upstream.payload
          \in {"noCandidates", "emptyCandidates", "noContent", "noParts",
               "emptyParts", "noText"}

\* C20: when the API key is not configured, the upstream status is not a
\* success, the upstream call fails in transport or the upstream payload
\* is malformed, the endpoint answers with a non-2xx status and an error
\* body, never with 200 and a list of questions
C20_FailuresReported ==
    /\ Answered /\ Accepted
    /\ \/ ~apiCall.apiKey
       \/ apiCall.upstream.kind = "transport"
       \/ ~Ok(apiCall.upstream.status)
       \/ Malformed
    => /\ ~Ok(apiResponse.status)
       /\ apiResponse.error # "" /\ apiResponse.list = <<>>


\* the text of the request is absent, not a string, or has fewer than 30
\* characters once trimmed
BadText ==
    \/ apiCall.text.kind # "string"
    \/ Len(Trim(apiCall.text.value)) < MinRequestLength

\* C21 as stated: every request with such a text is answered 400 and no
\* upstream request is sent, whatever the configuration
C21_BadTextRejected ==
    Answered /\ BadText => apiResponse.status = 400 /\ ~Fetches(apiCall)

\* C21: every POST request with such a text is answered 400 and no
\* upstream request is sent, whatever the configuration; a request with
\* another method is answered 405 before its text is read
C21_BadTextOfPostRejected ==
    Answered /\ BadText =>
       /\ ~Fetches(apiCall)
       /\ apiResponse.status = IF apiCall.method = "POST" THEN 400 ELSE 405

\* a text of 30 or more characters, fewer than 30 of them within the blanks
\* around them, has been rejected by a server that has its API key
C21_Rejected ==
    /\ Answered /\ apiResponse.status = 400
    /\ apiCall.apiKey
    /\ apiCall.text.kind = "string"
    /\ Len(apiCall.text.value) >= MinRequestLength


\* the step that handles a response clears the loading flag and raises
\* one alert when the response is a failure, none when it is a success
OneNotification ==
    ResponseStep =>
       /\ isGeneratingQuestions' = FALSE
       /\ alerts' = alerts + (IF ResponseFails(handled'.response) THEN 1 ELSE 0)

\* C22: every request the client has started is handled in the end, the
\* loading flag being cleared then, whatever the outcome is (success,
\* non-2xx status, malformed body, network failure); the handling of a
\* failure raises exactly one alert
C22_RequestsEnd ==
    /\ \A serial \in 1..MaxRequests :
          serial \in requests ~>
             (handled.serial = serial /\ ~isGeneratingQuestions)
    /\ [][OneNotification]_vars

\* a request has ended in a failure: the flag is cleared, one alert raised
C22_Failed ==
    /\ handled.serial > 0 /\ ResponseFails(handled.response)
    /\ requests = {} /\ ~isGeneratingQuestions
    /\ alerts = 1


(***************************************************************************)
(* Teardown.                                                               *)
(***************************************************************************)

\* C23: once the Editor is unmounted it stays so, no value is appended to
\* an activity series and no paste or input event changes the state of
\* the editor; the same holds for the series and counters of HomePage
C23_NothingAfterTeardown ==
    [][/\ ~mounted =>
             /\ ~mounted'
             /\ UNCHANGED << charSeries, backspaceSeries, charAmount,
                             backspaceAmount, oldTextLength, doc, references,
                             selectedText, isDialogOpen, citation >>
       /\ ~homeMounted => UNCHANGED homeVars]_vars

\* the Editor has been unmounted after its timer had ticked and the user
\* had typed
C23_TornDown ==
    /\ ~mounted /\ lastOp.op = "unmount"
    /\ Len(charSeries) >= 1 /\ charAmount >= 1


(***************************************************************************)
(* Exports.                                                                *)
(***************************************************************************)

\* the parts of a string between the occurrences of a separator
RECURSIVE SplitAt(_, _)
SplitAt(s, sep) ==
    IF \A i \in 1..Len(s) : s[i] # sep THEN << s >>
    ELSE LET i == Min({ j \in 1..Len(s) : s[j] = sep })
         IN << SubSeq(s, 1, i - 1) >> \o SplitAt(SubSeq(s, i + 1, Len(s)), sep)

\* the values of a row that are not empty
Filled(row) == SelectSeq(SplitAt(row, Comma), Truthy)

\* a step that downloads a file
DownloadStep == download'.n # download.n

\* C24: the activity export of either page has exactly two rows separated
\* by one line break; the first row lists the samples of the keystroke
\* series and the second those of the deletion series, in their order and
\* separated by commas; both rows have the same number of values
C24_ExportRows ==
    [][DownloadStep /\ download'.kind \in {"metrics", "activity-log"} =>
          LET rows == SplitAt(download'.content, "\n")
              first == IF download'.kind = "metrics"
                       THEN charSeries ELSE keystrokes
              second == IF download'.kind = "metrics"
                        THEN backspaceSeries ELSE backspaces
          IN /\ Len(rows) = 2
             /\ Filled(rows[1]) = Strings(first)
             /\ Filled(rows[2]) = Strings(second)
             /\ Len(SplitAt(rows[1], Comma)) = Len(SplitAt(rows[2], Comma))]_vars

\* the Editor has exported two series of two or more samples that differ
C24_Exported ==
    /\ lastOp.op = "export" /\ download.kind = "metrics"
    /\ Len(charSeries) >= 2 /\ charSeries # backspaceSeries

(***************************************************************************)
(* A JSON parser: the value that a text denotes and the text after it.     *)
(***************************************************************************)
NoValue == [t |-> "none", n |-> 0, s |-> <<>>, a |-> <<>>, o |-> <<>>]

Parsed(v, rest) == [v |-> v, rest |-> rest]

RECURSIVE SkipSpace(_)
SkipSpace(s) ==
    IF s # <<>> /\ Head(s) \in { " ", "\n" } THEN SkipSpace(Tail(s)) ELSE s

NumberOf(token) ==
    IF \E n \in 0..(MaxClock + MaxCoord) : ToString(n) = token
    THEN Num(CHOOSE n \in 0..(MaxClock + MaxCoord) : ToString(n) = token)
    ELSE NoValue

\* the characters of a string literal after its opening quote
RECURSIVE ParseChars(_)
ParseChars(s) ==
    IF s = <<>> THEN Parsed(<<>>, <<>>)
    ELSE IF Head(s) = DoubleQuote THEN Parsed(<<>>, Tail(s))
    ELSE IF Head(s) = BackSlash /\ Len(s) >= 2
    THEN LET more == ParseChars(Tail(Tail(s)))
         IN Parsed(<< IF s[2] = "n" THEN "\n" ELSE s[2] >> \o more.v, more.rest)
    ELSE LET more == ParseChars(Tail(s))
         IN Parsed(<< Head(s) >> \o more.v, more.rest)

RECURSIVE ParseValue(_)
RECURSIVE ParseItems(_)
RECURSIVE ParseMembers(_)

\* the items of an array after its opening bracket
ParseItems(s) ==
    LET t == SkipSpace(s)
    IN IF t = <<>> THEN Parsed(<<>>, <<>>)
       ELSE IF Head(t) \in { "]", "," } THEN
            IF Head(t) = "]" THEN Parsed(<<>>, Tail(t)) ELSE ParseItems(Tail(t))
       ELSE LET item == ParseValue(t)
                more == ParseItems(item.rest)
            IN Parsed(<< item.v >> \o more.v, more.rest)

\* the members of an object after its opening brace
ParseMembers(s) ==
    LET t == SkipSpace(s)
    IN IF t = <<>> THEN Parsed(<<>>, <<>>)
       ELSE IF Head(t) = "}" THEN Parsed(<<>>, Tail(t))
       ELSE IF Head(t) # DoubleQuote THEN ParseMembers(Tail(t))
       ELSE LET key == ParseChars(Tail(t))
                colon == SkipSpace(key.rest)
                value == ParseValue(IF colon # <<>> /\ Head(colon) = ":"
                                    THEN Tail(colon) ELSE colon)
                more == ParseMembers(value.rest)
            IN Parsed(<< [k |-> key.v, v |-> value.v] >> \o more.v, more.rest)

ParseValue(s) ==
    LET t == SkipSpace(s)
    IN IF t = <<>> THEN Parsed(NoValue, <<>>)
       ELSE IF Head(t) = DoubleQuote
       THEN LET chars == ParseChars(Tail(t)) IN Parsed(Str(chars.v), chars.rest)
       ELSE IF Head(t) = "["
       THEN LET items == ParseItems(Tail(t)) IN Parsed(Arr(items.v), items.rest)
       ELSE IF Head(t) = "{"
       THEN LET members == ParseMembers(Tail(t))
            IN Parsed(Obj(members.v), members.rest)
       ELSE Parsed(NumberOf(Head(t)), Tail(t))

\* the text is one JSON value and nothing else
ParseJson(s) ==
    LET parsed == ParseValue(s)
    IN IF SkipSpace(parsed.rest) = <<>> THEN parsed.v ELSE NoValue

\* a record with a timestamp, a type and the field that belongs to the type
IsLogRecord(entry) ==
    /\ entry.t = "obj" /\ Len(entry.o) = 3
    /\ entry.o[1].k = << "timestamp" >> /\ entry.o[1].v.t = "num"
    /\ entry.o[2].k = << "type" >> /\ entry.o[2].v.t = "str"
    /\ \/ /\ entry.o[2].v.s = << "change" >>
          /\ entry.o[3].k = << "value" >> /\ entry.o[3].v.t = "str"
       \/ /\ entry.o[2].v.s = << "keypress" >>
          /\ entry.o[3].k = << "key" >> /\ entry.o[3].v.t = "str"
       \/ /\ entry.o[2].v.s = << "click" >>
          /\ entry.o[3].k = << "coords" >> /\ entry.o[3].v.t = "obj"

\* C25: every handler of the event-log page appends exactly one record at
\* the end of the log and leaves the earlier records as they were (a change
\* logs the new value of the text), nothing else changes the log, and
\* parsing an export of the log yields the logged records: as many, in the
\* same order, with the same fields.
C25_LogRoundTrip ==
    [][/\ events' # events =>
             /\ Len(events') = Len(events) + 1
             /\ SubSeq(events', 1, Len(events)) = events
             /\ IsLogRecord(events'[Len(events')])
       /\ homeText' # homeText =>
             /\ Len(events') = Len(events) + 1
             /\ events'[Len(events')].o[2].v.s = << "change" >>
             /\ events'[Len(events')].o[3].v.s = homeText'
       /\ DownloadStep /\ download'.kind = "event-log" =>
             /\ events' = events
             /\ ParseJson(download'.content) = Arr(events)
             /\ Len(ParseJson(download'.content).a) = Len(events)]_vars

\* C25 witness: a log of a change whose value needs escaping, then another
\* record, has been exported
C25_Exported ==
    /\ download.kind = "event-log"
    /\ Len(events) = MaxEvents
    /\ events[1].o[3].v.s = << "a", DoubleQuote >>
    /\ events[2].o[2].v.s = << "click" >>
    /\ ParseJson(download.content) = Arr(events)

(***************************************************************************)
(* The document in document order: a leaf is itself, a span is its start,  *)
(* its content and its end.                                                *)
(***************************************************************************)
SpanStart(node) == [k |-> "start", id |-> node.id, c |-> "", kids |-> <<>>]
SpanEnd == [k |-> "end", id |-> NoId, c |-> "", kids |-> <<>>]

RECURSIVE Flat(_)
Flat(ns) ==
    IF ns = <<>> THEN <<>>
    ELSE (IF Head(ns).k = "span"
          THEN << SpanStart(Head(ns)) >> \o Flat(Head(ns).kids) \o << SpanEnd >>
          ELSE << Head(ns) >>)
         \o Flat(Tail(ns))

\* where the node at path stands in the document order
RECURSIVE FlatIndex(_, _)
FlatIndex(ns, path) ==
    Len(Flat(SubSeq(ns, 1, path[1] - 1))) + 1
    + (IF Len(path) = 1 THEN 0 ELSE FlatIndex(ns[path[1]].kids, Tail(path)))

\* the places of the marker of the open dialog's paste
OpenMarkers == { i \in 1..Len(Flat(doc)) : Flat(doc)[i] = OpenMarker }

\* the block of a commit: the span with the pasted text, the separator and
\* the empty insertion point
CommittedBlock ==
    << SpanStart(SpanNode(Added.id, selectedText)) >>
       \o [i \in 1..Len(selectedText) |-> TextNode(selectedText[i])]
       \o << SpanEnd, TextNode(NBSP), NormalNode >>

\* the content of a stretch of the document: the markers are not content
Content(f) == SelectSeq(f, LAMBDA node : node.k # "marker")

\* C26: a commit made with a citation that is not blank while the marker of
\* the paste is in the document puts the span with the pasted text, the
\* non-breaking space and the empty insertion point, in that order and next
\* to each other, in the place of that marker, and one marker less is in
\* the document: the content that was before the marker is before the
\* block, the content that was after it is after the block, and the cursor
\* is in the insertion point of the block.
C26_BlockReplacesMarker ==
    [][ (isDialogOpen /\ ValidCitation /\ CommitStep) =>
          \A i \in OpenMarkers :
             /\ Content(Flat(doc')) =
                   Content(SubSeq(Flat(doc), 1, i - 1)) \o CommittedBlock
                      \o Content(SubSeq(Flat(doc), i + 1, Len(Flat(doc))))
             /\ MarkerCount(doc') = MarkerCount(doc) - 1
             /\ lastOp'.cursor # <<>>
             /\ Len(Content(SubSeq(Flat(doc'), 1,
                                   FlatIndex(doc', lastOp'.cursor))))
                   = Len(Content(SubSeq(Flat(doc), 1, i - 1)))
                        + Len(CommittedBlock) ]_vars

(***************************************************************************)
(* The input events of the model, and what an input event finds.           *)
(***************************************************************************)
TypeStep == \E pos \in Positions(doc) : TypeChar(pos)
DefaultPasteStep == \E pos \in Positions(doc) : DefaultPaste(pos)
DeleteStep == \E r \in Deletable(doc) : DeleteRange(r[1], r[2])

\* the difference between the visible length and the length observed before
Delta == Abs(Len(InnerText(doc')) - oldTextLength)

Observed == oldTextLength' = Len(InnerText(doc'))

\* C27, as stated: every input event adds the whole difference of the
\* visible length to exactly one counter, the keystroke counter for an
\* insertion (typing, or the text that a paste inserts) and the deletion
\* counter for a deletion, and leaves the other counter alone; the observed
\* length becomes the visible length.
C27_DeltaToOneCounter ==
    [][/\ (TypeStep \/ DefaultPasteStep) =>
             /\ charAmount' = charAmount + Delta
             /\ backspaceAmount' = backspaceAmount
             /\ Observed
       /\ DeleteStep =>
             /\ backspaceAmount' = backspaceAmount + Delta
             /\ charAmount' = charAmount
             /\ Observed]_vars

\* C27, amended: the difference goes to the keystroke counter when the
\* input type is insertText, to the deletion counter when it is a deletion,
\* and to no counter for any other input type (the insertion of a paste);
\* the observed length becomes the visible length in every case.
C27_DeltaToAtMostOneCounter ==
    [][/\ TypeStep =>
             /\ charAmount' = charAmount + Delta
             /\ backspaceAmount' = backspaceAmount
             /\ Observed
       /\ DeleteStep =>
             /\ backspaceAmount' = backspaceAmount + Delta
             /\ charAmount' = charAmount
             /\ Observed
       /\ DefaultPasteStep =>
             /\ charAmount' = charAmount
             /\ backspaceAmount' = backspaceAmount
             /\ Observed]_vars

\* C27 witness: the paste of a space has been inserted by the browser and
\* observed, and no counter has moved
C27_PasteObserved ==
    /\ lastOp.op = "edit"
    /\ InnerText(doc) = << Blank >>
    /\ oldTextLength = 1
    /\ charAmount = 0 /\ backspaceAmount = 0

\* C28: the references of the store have ids that differ from each other,
\* and so have the spans of the document, at whatever times the commits
\* were made.
C28_IdsDiffer ==
    /\ \A i, j \in 1..Len(references) :
          i # j => references[i].id # references[j].id
    /\ \A id \in SpanIds(doc) : SpanCount(doc, id) = 1

\* C29: the first typing after the document was cleared, which adds k
\* characters to the empty document, takes the keystroke counter from 0 to
\* k and leaves the deletion counter at 0, whatever was in the document
\* before the clearing.
C29_CountingRestartsAfterClear ==
    [][ (lastOp.op = "clear" /\ TypeStep) =>
           /\ charAmount = 0
           /\ charAmount' = Len(InnerText(doc'))
           /\ backspaceAmount' = 0 ]_vars

\* C30: what a commit puts into the document and what a sidebar removal
\* takes out of it is not counted: the typing that follows such a change
\* and adds k characters raises the keystroke counter by k, the deletion
\* that follows it and removes k characters raises the deletion counter by
\* k, and the other counter stays as it is.
C30_ProgramChangesNotCounted ==
    [][ lastOp.op \in { "commit", "remove" } =>
           /\ TypeStep =>
                 /\ charAmount' = charAmount
                                     + Len(InnerText(doc')) - Len(InnerText(doc))
                 /\ backspaceAmount' = backspaceAmount
           /\ DeleteStep =>
                 /\ backspaceAmount' = backspaceAmount
                                          + Len(InnerText(doc)) - Len(InnerText(doc'))
                 /\ charAmount' = charAmount ]_vars

\* C31: whenever the paste dialog opens, the citation input is empty,
\* however the dialog before it ended: by a commit, by the Cancel button or
\* by a dismissal.
C31_CitationEmptyOnOpen ==
    [][ (~isDialogOpen /\ isDialogOpen') => citation' = <<>> ]_vars

=============================================================================
